---- MODULE Spec2Model ----
(***************************************************************************)
(* A model of pgGraphs (gfagraphs): the in-memory GFA graph of             *)
(* src/pgGraphs/graph.py (class Graph: segments, lines, paths, headers,    *)
(* metadata), its editing operations, and the line parser / serializer of  *)
(* src/pgGraphs/gfaparser.py.                                              *)
(*                                                                         *)
(* Text (a Python str) is a sequence of one-character strings, so that     *)
(* splitting, slicing, stripping and joining are modelled by what they do. *)
(* Python dicts keep insertion order and the code iterates over them, so a *)
(* dict is a sequence of [k, v] entries (Put keeps the place of an         *)
(* existing key and appends a new one, Pop removes the entry).             *)
(* A call that raises leaves the graph as it was at the raise: the code    *)
(* has no rollback.  `last` records the call and the exception it raised,  *)
(* `pre` the three collections as they were when the call started.         *)
(***************************************************************************)
EXTENDS Integers, Sequences, FiniteSets, TLC

VARIABLES
    alive,      \* TRUE once a Graph object exists (its constructor returned)
    segments,   \* Graph.segments : dict[str, dict]
    lines,      \* Graph.lines    : dict[tuple[str, str], dict]
    paths,      \* Graph.paths    : dict[str, dict]
    headers,    \* Graph.headers  : list[dict]
    metadata,   \* Graph.metadata : version, next_node_name, with_sequence
    last,       \* the last call made and the exception it raised, if any
    pre,        \* segments, lines, paths when the last call started
    calls,      \* number of Editor calls made so far
    disk,       \* the lines of the .gfa file that Graph reads and save_graph writes
    pool        \* a call of global_offset in progress: its tasks and what they annotate

vars == <<alive, segments, lines, paths, headers, metadata, last, pre, calls, disk, pool>>

\* ------------------------------------------------------------ bounds
\* Editor calls made on one graph
MaxCalls == 3
\* Lines of the short files read from disk
MaxLines == 2

\* ------------------------------------------------------------ Python values
\* Python's None where a name (a dict key, merge_name) is expected.  It is a
\* one-element sequence holding a word, so it equals no Text.
None == <<"None">>
\* A dict key that is not set (edge['start'] on an edge without that key).
Absent == <<"absent">>
\* No exception: the call returned normally.
NoError == "returned"

PyNone == [t |-> "None", i |-> 0, s |-> <<>>]
PyInt(n) == [t |-> "int", i |-> n, s |-> <<>>]
PyStr(x) == [t |-> "str", i |-> 0, s |-> x]
\* A float is held as the text repr() gives for it: two floats are the same
\* value when they have the same repr
PyFloat(x) == [t |-> "float", i |-> 0, s |-> x]
PyBool(b) == [t |-> "bool", i |-> IF b THEN 1 ELSE 0, s |-> <<>>]
\* A list, a tuple and a set hold values; a dict holds [k, v] entries of values
PyList(x) == [t |-> "list", i |-> 0, s |-> x]
PyTuple(x) == [t |-> "tuple", i |-> 0, s |-> x]
PyDict(x) == [t |-> "dict", i |-> 0, s |-> x]
PySet(x) == [t |-> "set", i |-> 0, s |-> x]

Min(a, b) == IF a < b THEN a ELSE b
SetMin(S) == CHOOSE x \in S : \A y \in S : x <= y
SetMax(S) == CHOOSE x \in S : \A y \in S : x >= y
\* F(x) with x computed once: a local variable holding the value of x
Once(x, F(_)) == CHOOSE r \in {F(y) : y \in {x}} : TRUE

\* ------------------------------------------------------------ dict
Keys(d) == {d[i].k : i \in 1..Len(d)}
Has(d, key) == key \in Keys(d)
Get(d, key) == d[CHOOSE i \in 1..Len(d) : d[i].k = key].v
Put(d, key, val) ==
    IF Has(d, key)
    THEN [i \in 1..Len(d) |-> IF d[i].k = key THEN [k |-> key, v |-> val] ELSE d[i]]
    ELSE Append(d, [k |-> key, v |-> val])
Pop(d, key) == SelectSeq(d, LAMBDA e : e.k # key)

\* ------------------------------------------------------------ str
TAB == "\t"
NL == "\n"
UpperLetters ==
    {"A", "B", "C", "D", "E", "F", "G", "H", "I", "J", "K", "L", "M",
     "N", "O", "P", "Q", "R", "S", "T", "U", "V", "W", "X", "Y", "Z"}
LowerLetters ==
    {"a", "b", "c", "d", "e", "f", "g", "h", "i", "j", "k", "l", "m",
     "n", "o", "p", "q", "r", "s", "t", "u", "v", "w", "x", "y", "z"}
UpperPairs ==
    {<<"a", "A">>, <<"b", "B">>, <<"c", "C">>, <<"d", "D">>, <<"e", "E">>,
     <<"f", "F">>, <<"g", "G">>, <<"h", "H">>, <<"i", "I">>, <<"j", "J">>,
     <<"k", "K">>, <<"l", "L">>, <<"m", "M">>, <<"n", "N">>, <<"o", "O">>,
     <<"p", "P">>, <<"q", "Q">>, <<"r", "R">>, <<"s", "S">>, <<"t", "T">>,
     <<"u", "U">>, <<"v", "V">>, <<"w", "W">>, <<"x", "X">>, <<"y", "Y">>,
     <<"z", "Z">>}
Digits == <<"0", "1", "2", "3", "4", "5", "6", "7", "8", "9">>
DigitSet == {Digits[i] : i \in 1..10}
DigitValue(c) == (CHOOSE i \in 1..10 : Digits[i] = c) - 1

\* s[a:b] for 0 <= a and 0 <= b
PySlice(s, a, b) == SubSeq(s, a + 1, Min(b, Len(s)))
\* s[a:]
PyFrom(s, a) == SubSeq(s, a + 1, Len(s))
\* 'N' * n
NRun(n) == [i \in 1..n |-> "N"]
\* s.upper()
UpperChar(c) == IF c \in LowerLetters THEN (CHOOSE p \in UpperPairs : p[1] = c)[2] ELSE c
Upper(s) == [i \in 1..Len(s) |-> UpperChar(s[i])]
\* s.isupper(): some cased character, and no lower-case one
IsUpper(s) ==
    /\ \E i \in 1..Len(s) : s[i] \in UpperLetters
    /\ \A i \in 1..Len(s) : s[i] \notin LowerLetters
\* s.strip()
IsSpace(c) == c \in {" ", "\t", "\n", "\r"}
Strip(s) ==
    LET keep == {i \in 1..Len(s) : ~IsSpace(s[i])}
    IN IF keep = {} THEN <<>> ELSE SubSeq(s, SetMin(keep), SetMax(keep))
\* s.split(sep) for a one-character sep
RECURSIVE SplitFrom(_, _, _)
SplitFrom(s, sep, start) ==
    LET at == {i \in start..Len(s) : s[i] = sep}
    IN IF at = {} THEN <<SubSeq(s, start, Len(s))>>
       ELSE <<SubSeq(s, start, SetMin(at) - 1)>> \o SplitFrom(s, sep, SetMin(at) + 1)
Split(s, sep) == SplitFrom(s, sep, 1)
\* s.replace(c, r) for a one-character c
RECURSIVE Replace(_, _, _)
Replace(s, c, r) ==
    IF s = <<>> THEN <<>>
    ELSE (IF Head(s) = c THEN r ELSE <<Head(s)>>) \o Replace(Tail(s), c, r)
\* sep.join(parts)
RECURSIVE Join(_, _)
Join(parts, sep) ==
    IF parts = <<>> THEN <<>>
    ELSE IF Len(parts) = 1 THEN parts[1]
    ELSE parts[1] \o sep \o Join(Tail(parts), sep)
\* str(n) for n >= 0
RECURSIVE IntToText(_)
IntToText(n) ==
    IF n < 10 THEN <<Digits[n + 1]>> ELSE IntToText(n \div 10) \o <<Digits[(n % 10) + 1]>>
\* int(s) for the texts int() accepts here: an optional sign and digits
IsIntText(s) ==
    LET body == IF s # <<>> /\ s[1] \in {"-", "+"} THEN Tail(s) ELSE s
    IN body # <<>> /\ \A i \in 1..Len(body) : body[i] \in DigitSet
RECURSIVE DigitsToInt(_)
DigitsToInt(s) ==
    IF s = <<>> THEN 0 ELSE 10 * DigitsToInt(SubSeq(s, 1, Len(s) - 1)) + DigitValue(s[Len(s)])
TextToInt(s) ==
    IF s[1] = "-" THEN 0 - DigitsToInt(Tail(s))
    ELSE IF s[1] = "+" THEN DigitsToInt(Tail(s)) ELSE DigitsToInt(s)

\* ------------------------------------------------------------ float, json
\* str(n)
IntRepr(n) == IF n < 0 THEN <<"-">> \o IntToText(0 - n) ELSE IntToText(n)
\* s.lower()
LowerChar(c) == IF c \in UpperLetters THEN (CHOOSE p \in UpperPairs : p[2] = c)[1] ELSE c
Lower(s) == [i \in 1..Len(s) |-> LowerChar(s[i])]
\* float(text) accepts, among the texts met here, a signed decimal with at
\* most one point and at least one digit, and the signed words nan, inf and
\* infinity in any case
FloatWords == {<<"n", "a", "n">>, <<"i", "n", "f">>, <<"i", "n", "f", "i", "n", "i", "t", "y">>}
IsFloatWord(s) ==
    Lower(IF s # <<>> /\ s[1] \in {"-", "+"} THEN Tail(s) ELSE s) \in FloatWords
IsFloatText(s) ==
    LET body == IF s # <<>> /\ s[1] \in {"-", "+"} THEN Tail(s) ELSE s
    IN \/ IsFloatWord(s)
       \/ /\ \E i \in 1..Len(body) : body[i] \in DigitSet
          /\ \A i \in 1..Len(body) : body[i] \in DigitSet \cup {"."}
          /\ Cardinality({i \in 1..Len(body) : body[i] = "."}) <= 1
\* str(float(text)) for the short decimal texts float() accepts here: the sign
\* '+' goes, the integer part loses its leading zeros, the fraction its
\* trailing ones, and each part keeps at least one digit.
StripLeadingZeros(s) ==
    LET keep == {i \in 1..Len(s) : s[i] # "0"}
    IN IF keep = {} THEN <<"0">> ELSE SubSeq(s, SetMin(keep), Len(s))
StripTrailingZeros(s) ==
    LET keep == {i \in 1..Len(s) : s[i] # "0"}
    IN IF keep = {} THEN <<"0">> ELSE SubSeq(s, 1, SetMax(keep))
FloatRepr(text) ==
    IF IsFloatWord(text)
    THEN (IF Lower(text)[Len(text)] = "n" THEN <<"n", "a", "n">>
          ELSE IF text[1] = "-" THEN <<"-", "i", "n", "f">> ELSE <<"i", "n", "f">>)
    ELSE LET neg == text[1] = "-"
             body == IF text[1] \in {"-", "+"} THEN Tail(text) ELSE text
             parts == Split(body, ".")
             whole == StripLeadingZeros(parts[1])
             frac == IF Len(parts) > 1 THEN StripTrailingZeros(parts[2]) ELSE <<"0">>
         IN (IF neg THEN <<"-">> ELSE <<>>) \o whole \o <<".">> \o frac

\* json.dumps(value) with the default separators ', ' and ': '.  A string is
\* quoted, with '"' and '\' escaped; a tuple is written as a list; the key of
\* a dict is written as a string, whatever basic type it has.
JsonQuote(text) ==
    <<"\"">> \o Replace(Replace(text, "\\", <<"\\", "\\">>), "\"", <<"\\", "\"">>) \o <<"\"">>
JsonFloat(text) ==
    CASE text = <<"n", "a", "n">> -> <<"N", "a", "N">>
      [] text = <<"i", "n", "f">> -> <<"I", "n", "f", "i", "n", "i", "t", "y">>
      [] text = <<"-", "i", "n", "f">> -> <<"-", "I", "n", "f", "i", "n", "i", "t", "y">>
      [] OTHER -> text
JsonAtom(value) ==
    CASE value.t = "None" -> <<"n", "u", "l", "l">>
      [] value.t = "bool" -> IF value.i = 1 THEN <<"t", "r", "u", "e">>
                             ELSE <<"f", "a", "l", "s", "e">>
      [] value.t = "int" -> IntRepr(value.i)
      [] value.t = "float" -> JsonFloat(value.s)
IsAtom(value) == value.t \in {"None", "bool", "int", "float"}
\* dumps raises TypeError on a value it cannot write: a set, a key that is
\* not of a basic type
RECURSIVE Serializable(_)
Serializable(value) ==
    CASE IsAtom(value) \/ value.t = "str" -> TRUE
      [] value.t \in {"list", "tuple"} ->
            \A i \in 1..Len(value.s) : Serializable(value.s[i])
      [] value.t = "dict" ->
            \A i \in 1..Len(value.s) :
                /\ IsAtom(value.s[i].k) \/ value.s[i].k.t = "str"
                /\ Serializable(value.s[i].v)
      [] OTHER -> FALSE
RECURSIVE dumps(_)
dumps(value) ==
    CASE IsAtom(value) -> JsonAtom(value)
      [] value.t = "str" -> JsonQuote(value.s)
      [] value.t \in {"list", "tuple"} ->
            <<"[">> \o Join([i \in 1..Len(value.s) |-> dumps(value.s[i])], <<",", " ">>)
            \o <<"]">>
      [] value.t = "dict" ->
            <<"{">>
            \o Join([i \in 1..Len(value.s) |->
                        (IF value.s[i].k.t = "str" THEN JsonQuote(value.s[i].k.s)
                         ELSE JsonQuote(JsonAtom(value.s[i].k)))
                        \o <<":", " ">> \o dumps(value.s[i].v)],
                    <<",", " ">>)
            \o <<"}">>

\* json.loads(text): [ok, v, n], the value read from position i and the
\* position after it.  Numbers are read without exponent, strings with the
\* escapes \" \\ \/ \n \t.
JsonFail == [ok |-> FALSE, v |-> PyNone, n |-> 0]
JsonRead(v, n) == [ok |-> TRUE, v |-> v, n |-> n]
RECURSIVE SkipWs(_, _)
SkipWs(text, i) == IF i <= Len(text) /\ IsSpace(text[i]) THEN SkipWs(text, i + 1) ELSE i
StartsWith(text, i, word) ==
    i + Len(word) - 1 <= Len(text) /\ SubSeq(text, i, i + Len(word) - 1) = word
RECURSIVE DigitRun(_, _)
DigitRun(text, i) ==
    IF i <= Len(text) /\ text[i] \in DigitSet THEN DigitRun(text, i + 1) ELSE i
RECURSIVE JsonString(_, _, _)
JsonString(text, i, acc) ==
    IF i > Len(text) \/ text[i] \in {"\t", "\n", "\r"} THEN JsonFail
    ELSE IF text[i] = "\"" THEN JsonRead(PyStr(acc), i + 1)
    ELSE IF text[i] # "\\" THEN JsonString(text, i + 1, Append(acc, text[i]))
    ELSE IF i + 1 > Len(text) THEN JsonFail
    ELSE IF text[i + 1] \in {"\"", "\\", "/"}
    THEN JsonString(text, i + 2, Append(acc, text[i + 1]))
    ELSE IF text[i + 1] = "n" THEN JsonString(text, i + 2, Append(acc, "\n"))
    ELSE IF text[i + 1] = "t" THEN JsonString(text, i + 2, Append(acc, "\t"))
    ELSE JsonFail
JsonNumber(text, i) ==
    LET d == IF text[i] = "-" THEN i + 1 ELSE i
        e == IF d <= Len(text) /\ text[d] = "0" THEN d + 1 ELSE DigitRun(text, d)
        f == IF e + 1 <= Len(text) /\ text[e] = "." /\ text[e + 1] \in DigitSet
             THEN DigitRun(text, e + 1) ELSE e
    IN IF e = d THEN JsonFail
       ELSE IF f > e THEN JsonRead(PyFloat(FloatRepr(SubSeq(text, i, f - 1))), f)
       ELSE JsonRead(PyInt(TextToInt(SubSeq(text, i, e - 1))), e)
RECURSIVE JsonValue(_, _)
RECURSIVE JsonItems(_, _, _)
RECURSIVE JsonMembers(_, _, _)
JsonValue(text, at) ==
    LET i == SkipWs(text, at)
    IN IF i > Len(text) THEN JsonFail
       ELSE IF StartsWith(text, i, <<"n", "u", "l", "l">>) THEN JsonRead(PyNone, i + 4)
       ELSE IF StartsWith(text, i, <<"t", "r", "u", "e">>) THEN JsonRead(PyBool(TRUE), i + 4)
       ELSE IF StartsWith(text, i, <<"f", "a", "l", "s", "e">>)
       THEN JsonRead(PyBool(FALSE), i + 5)
       ELSE IF StartsWith(text, i, <<"N", "a", "N">>)
       THEN JsonRead(PyFloat(<<"n", "a", "n">>), i + 3)
       ELSE IF StartsWith(text, i, <<"I", "n", "f", "i", "n", "i", "t", "y">>)
       THEN JsonRead(PyFloat(<<"i", "n", "f">>), i + 8)
       ELSE IF StartsWith(text, i, <<"-", "I", "n", "f", "i", "n", "i", "t", "y">>)
       THEN JsonRead(PyFloat(<<"-", "i", "n", "f">>), i + 9)
       ELSE IF text[i] = "\"" THEN JsonString(text, i + 1, <<>>)
       ELSE IF text[i] = "-" \/ text[i] \in DigitSet THEN JsonNumber(text, i)
       ELSE IF text[i] = "["
       THEN (IF SkipWs(text, i + 1) <= Len(text) /\ text[SkipWs(text, i + 1)] = "]"
             THEN JsonRead(PyList(<<>>), SkipWs(text, i + 1) + 1)
             ELSE JsonItems(text, i + 1, <<>>))
       ELSE IF text[i] = "{"
       THEN (IF SkipWs(text, i + 1) <= Len(text) /\ text[SkipWs(text, i + 1)] = "}"
             THEN JsonRead(PyDict(<<>>), SkipWs(text, i + 1) + 1)
             ELSE JsonMembers(text, i + 1, <<>>))
       ELSE JsonFail
\* The items of an array, after '[' or ','
JsonItems(text, at, acc) ==
    LET item == JsonValue(text, at)
        j == SkipWs(text, item.n)
    IN IF ~item.ok \/ j > Len(text) THEN JsonFail
       ELSE IF text[j] = "]" THEN JsonRead(PyList(Append(acc, item.v)), j + 1)
       ELSE IF text[j] = "," THEN JsonItems(text, j + 1, Append(acc, item.v))
       ELSE JsonFail
\* The members of an object, after '{' or ',': a repeated key keeps its place
\* and takes the last value
JsonMembers(text, at, acc) ==
    LET i == SkipWs(text, at)
        key == IF i <= Len(text) /\ text[i] = "\"" THEN JsonString(text, i + 1, <<>>)
               ELSE JsonFail
        c == SkipWs(text, key.n)
        val == IF key.ok /\ c <= Len(text) /\ text[c] = ":" THEN JsonValue(text, c + 1)
               ELSE JsonFail
        j == SkipWs(text, val.n)
    IN IF ~val.ok \/ j > Len(text) THEN JsonFail
       ELSE IF text[j] = "}" THEN JsonRead(PyDict(Put(acc, key.v, val.v)), j + 1)
       ELSE IF text[j] = "," THEN JsonMembers(text, j + 1, Put(acc, key.v, val.v))
       ELSE JsonFail
\* loads(text): [raised, value]; text after the value is an error
loads(text) ==
    LET got == JsonValue(text, 1)
    IN IF got.ok /\ SkipWs(text, got.n) > Len(text)
       THEN [raised |-> NoError, value |-> got.v]
       ELSE [raised |-> "JSONDecodeError", value |-> PyNone]

\* ------------------------------------------------------------ abstractions.py
\* The members of the enums are one-word sequences, the raw characters are Text:
\* ('source', '+') of add_dovetails is not ('source', Orientation.FORWARD).
FORWARD == <<"Orientation.FORWARD">>
REVERSE == <<"Orientation.REVERSE">>
ANY == <<"Orientation.ANY">>
BOTH == <<"Orientation.BOTH">>
OriMembers == {FORWARD, REVERSE, ANY, BOTH}
OriChars == {<<"+">>, <<"-">>, <<"?">>, <<"=">>}
\* Orientation(x) succeeds on a member and on the value of a member
IsOrientation(x) == x \in OriMembers \/ x \in OriChars
Orientation(x) ==
    CASE x = <<"+">> -> FORWARD [] x = <<"-">> -> REVERSE
      [] x = <<"?">> -> ANY [] x = <<"=">> -> BOTH
      [] OTHER -> x
\* member.value
OriValue(m) ==
    CASE m = FORWARD -> <<"+">> [] m = REVERSE -> <<"-">>
      [] m = ANY -> <<"?">> [] m = BOTH -> <<"=">>

\* GFALine(x): the line kinds that exist.  There is no member LINK.
GFALineValues == {<<"S">>, <<"L">>, <<"W">>, <<"P">>, <<"H">>, <<"#">>, <<"?">>}

\* GFAFormat members, and the plain strings get_gfa_format returns
FormatNames == {"rGFA", "GFA1", "GFA1.1", "GFA1.2", "GFA2", "unknown"}
GFAFormat(name) == <<"GFAFormat", name>>
FormatStr(name) == <<"str", name>>

\* The members of GFALine by name: GFALine.SEGMENT, GFALine.LINE, ...
GFALineMembers ==
    [SEGMENT |-> <<"S">>, LINE |-> <<"L">>, WALK |-> <<"W">>, PATH |-> <<"P">>,
     HEADER |-> <<"H">>, COMMENT |-> <<"#">>, ANY |-> <<"?">>]

\* ------------------------------------------------------------ gfaparser.py
\* get_gfa_type(tag_type)(text): the decoded value, or the exception raised
Raise(exc) == [raised |-> exc, value |-> PyNone]
Value(v) == [raised |-> NoError, value |-> v]
get_gfa_type(tag_type, text) ==
    IF tag_type = "i" THEN (IF IsIntText(text) THEN Value(PyInt(TextToInt(text))) ELSE Raise("ValueError"))
    ELSE IF tag_type = "f" THEN (IF IsFloatText(text) THEN Value(PyFloat(FloatRepr(text))) ELSE Raise("ValueError"))
    ELSE IF tag_type = "A" \/ tag_type = "Z" THEN Value(PyStr(text))
    ELSE IF tag_type = "J" THEN loads(text)
    ELSE IF tag_type = "H" \/ tag_type = "B" THEN Raise("NotImplementedError")
    ELSE Raise("ValueError")

\* match('[A-Z]{2}:[a-zA-Z]{1}:', additional_tag)
MatchesTag(s) ==
    /\ Len(s) >= 5
    /\ s[1] \in UpperLetters /\ s[2] \in UpperLetters /\ s[3] = ":"
    /\ s[4] \in UpperLetters \cup LowerLetters /\ s[5] = ":"

\* supplementary_datas(datas, length_condition): [raised, mapping]
RECURSIVE SupplementaryFrom(_, _, _, _)
SupplementaryFrom(datas, i, nargs, mapping) ==
    IF i > Len(datas) THEN [raised |-> NoError, mapping |-> mapping]
    ELSE IF MatchesTag(datas[i])
    THEN Once(get_gfa_type(datas[i][4], PyFrom(datas[i], 5)), LAMBDA got :
            IF got.raised # NoError THEN [raised |-> got.raised, mapping |-> mapping]
            ELSE SupplementaryFrom(datas, i + 1, nargs,
                                   Put(mapping, PySlice(datas[i], 0, 2), got.value)))
    ELSE SupplementaryFrom(datas, i + 1, nargs + 1,
                           Put(mapping, <<"A", "R", "G">> \o IntToText(nargs), PyStr(datas[i])))
supplementary_datas(datas, length_condition) ==
    SupplementaryFrom(datas, length_condition + 1, length_condition, <<>>)

\* The walk of a W-line: '>1<2' -> [('1', FORWARD), ('2', REVERSE)]
WalkNodes(text) ==
    Split(PyFrom(Replace(Replace(text, ">", <<",", "+">>), "<", <<",", "-">>), 1), ",")
WalkError(nodes) ==
    IF \E i \in 1..Len(nodes) : nodes[i] = <<>> THEN "IndexError"
    ELSE IF \E i \in 1..Len(nodes) : ~IsOrientation(<<nodes[i][1]>>) THEN "ValueError"
    ELSE NoError
WalkPath(nodes) ==
    [i \in 1..Len(nodes) |-> <<PyFrom(nodes[i], 1), Orientation(<<nodes[i][1]>>)>>]
\* The walk of a P-line: '1+,2-' -> [('1', FORWARD), ('2', REVERSE)]
PathNodes(text) == Split(text, ",")
PathError(nodes) ==
    IF \E i \in 1..Len(nodes) : nodes[i] = <<>> THEN "IndexError"
    ELSE IF \E i \in 1..Len(nodes) : ~IsOrientation(<<nodes[i][Len(nodes[i])]>>) THEN "ValueError"
    ELSE NoError
PathPath(nodes) ==
    [i \in 1..Len(nodes) |->
        <<SubSeq(nodes[i], 1, Len(nodes[i]) - 1), Orientation(<<nodes[i][Len(nodes[i])]>>)>>]

\* What read_gfa_line returns: (name, line_type, datas), or the exception raised
Parsed(name, line_type, datas) ==
    [raised |-> NoError, name |-> name, line_type |-> line_type, datas |-> datas]
ParseError(exc) ==
    [raised |-> exc, name |-> None, line_type |-> None, datas |-> None]
\* search(regexp_pattern, name).group(1).upper() with the default pattern ".*",
\* which has no group 1: the except branch takes name.upper()
Label(name) == Upper(name)

SegmentDatas(hasSeq, seq, length, tags) ==
    [hasSeq |-> hasSeq, seq |-> seq, length |-> length, tags |-> tags]
LineDatas(orientation, start, end, tags) ==
    [orientation |-> orientation, start |-> start, end |-> end, tags |-> tags]
PathDatas(id, name, origin, start_offset, stop_offset, path, tags) ==
    [id |-> id, name |-> name, origin |-> origin, start_offset |-> start_offset,
     stop_offset |-> stop_offset, path |-> path, tags |-> tags]

read_gfa_line(datas, load_sequence_in_memory, memory_mode) ==
    IF ~IsUpper(datas[1]) THEN Parsed(None, None, None)
    ELSE IF datas[1] \notin GFALineValues THEN ParseError("ValueError")
    ELSE IF datas[1] = GFALineMembers.SEGMENT
    THEN IF Len(datas) < 3 THEN ParseError("IndexError")
         ELSE LET seq == IF load_sequence_in_memory THEN datas[3] ELSE <<>>
              IN IF memory_mode
                 THEN Once(supplementary_datas(datas, 3), LAMBDA sup :
                         IF sup.raised # NoError THEN ParseError(sup.raised)
                         ELSE Parsed(datas[2], datas[1],
                                     SegmentDatas(load_sequence_in_memory, seq,
                                                  Len(datas[3]), sup.mapping)))
                 ELSE Parsed(datas[2], datas[1],
                             SegmentDatas(load_sequence_in_memory, seq, Len(datas[3]), <<>>))
    ELSE IF datas[1] = GFALineMembers.LINE
    THEN IF memory_mode THEN Parsed(None, None, None)
         ELSE IF Len(datas) < 3 THEN ParseError("IndexError")
         ELSE IF ~IsOrientation(datas[3]) THEN ParseError("ValueError")
         ELSE IF Len(datas) < 5 THEN ParseError("IndexError")
         ELSE IF ~IsOrientation(datas[5]) THEN ParseError("ValueError")
         ELSE Once(supplementary_datas(datas, 5), LAMBDA sup :
                 IF sup.raised # NoError THEN ParseError(sup.raised)
                 ELSE Parsed(<<datas[2], datas[4]>>, datas[1],
                             LineDatas({<<Orientation(datas[3]), Orientation(datas[5])>>},
                                       Absent, Absent, sup.mapping)))
    ELSE IF datas[1] = GFALineMembers.WALK
    THEN IF Len(datas) < 7 THEN ParseError("IndexError")
         ELSE Once(WalkNodes(datas[7]), LAMBDA nodes :
                 IF WalkError(nodes) # NoError THEN ParseError(WalkError(nodes))
                 ELSE Once(supplementary_datas(datas, 7), LAMBDA sup :
                         IF sup.raised # NoError THEN ParseError(sup.raised)
                         ELSE Parsed(Label(datas[4]), datas[1],
                                     PathDatas(datas[4], datas[2], PyStr(datas[3]),
                                               PyStr(datas[5]), PyStr(datas[6]),
                                               WalkPath(nodes), sup.mapping))))
    ELSE IF datas[1] = GFALineMembers.PATH
    THEN IF Len(datas) < 3 THEN ParseError("IndexError")
         ELSE Once(PathNodes(datas[3]), LAMBDA nodes :
                 IF PathError(nodes) # NoError THEN ParseError(PathError(nodes))
                 ELSE Once(supplementary_datas(datas, 7), LAMBDA sup :
                         IF sup.raised # NoError THEN ParseError(sup.raised)
                         ELSE Parsed(Label(datas[2]), datas[1],
                                     PathDatas(datas[2], datas[2], PyNone, PyNone, PyNone,
                                               PathPath(nodes), sup.mapping))))
    ELSE Once(supplementary_datas(datas, 1), LAMBDA sup :
            IF sup.raised # NoError THEN ParseError(sup.raised)
            ELSE Parsed(None, datas[1], sup.mapping))

\* [__.strip() for __ in gfa_line.split('\t')]
StrippedFields(gfa_line) ==
    LET fields == Split(gfa_line, TAB) IN [i \in 1..Len(fields) |-> Strip(fields[i])]

\* Graph(gfa_file=None): no file is given
NoFile == <<None>>

\* get_gfa_format(gfa_file_path) on an existing .gfa file: [raised, version]
VersionOf(vn) ==
    IF vn = PyStr(<<"1", ".", "0">>) THEN "GFA1"
    ELSE IF vn = PyStr(<<"1", ".", "1">>) THEN "GFA1.1"
    ELSE IF vn = PyStr(<<"1", ".", "2">>) THEN "GFA1.2"
    ELSE IF vn = PyStr(<<"2", ".", "0">>) THEN "GFA2"
    ELSE "unknown"
StripNewlines(s) ==
    LET keep == {i \in 1..Len(s) : s[i] # NL}
    IN IF keep = {} THEN <<>> ELSE SubSeq(s, SetMin(keep), SetMax(keep))
\* A variant that answers 'unknown' for a header without a VN tag
get_gfa_format_unknown(gfa_file) ==
    IF gfa_file = <<>> THEN [raised |-> "OSError", version |-> FormatStr("unknown")]
    ELSE LET header == gfa_file[1]
         IN IF header[1] # "H" THEN [raised |-> NoError, version |-> FormatStr("rGFA")]
            ELSE Once(supplementary_datas(Split(StripNewlines(header), TAB), 1),
                      LAMBDA sup :
                         IF sup.raised # NoError
                         THEN [raised |-> sup.raised, version |-> FormatStr("unknown")]
                         ELSE IF ~Has(sup.mapping, <<"V", "N">>)
                         THEN [raised |-> NoError, version |-> FormatStr("unknown")]
                         ELSE [raised |-> NoError,
                               version |-> FormatStr(VersionOf(Get(sup.mapping,
                                                                   <<"V", "N">>)))])
get_gfa_format(gfa_file) ==
    IF gfa_file = <<>> THEN [raised |-> "OSError", version |-> FormatStr("unknown")]
    ELSE LET header == gfa_file[1]
         IN IF header[1] # "H" THEN [raised |-> NoError, version |-> FormatStr("rGFA")]
            ELSE Once(supplementary_datas(Split(StripNewlines(header), TAB), 1),
                      LAMBDA sup :
                         IF sup.raised # NoError
                         THEN [raised |-> sup.raised, version |-> FormatStr("unknown")]
                         ELSE IF ~Has(sup.mapping, <<"V", "N">>)
                         THEN [raised |-> NoError, version |-> FormatStr("rGFA")]
                         ELSE [raised |-> NoError,
                               version |-> FormatStr(VersionOf(Get(sup.mapping,
                                                                   <<"V", "N">>)))])

\* ------------------------------------------------------------ graph.py
\* A graph under construction: the collections, and the exception that ended it
GraphOf(segs, lns, pths, hdrs, raised) ==
    [segments |-> segs, lines |-> lns, paths |-> pths, headers |-> hdrs, raised |-> raised]

\* Graph.__init__, the match statement on the parsed line.  The case patterns
\* are looked up in turn: GFALine.LINK is looked up for every line that is
\* neither a segment nor a walk or path, and GFALine has no such member.
InsertLine(g, r) ==
    IF r.line_type = GFALineMembers.SEGMENT
    THEN [g EXCEPT !.segments = Put(g.segments, r.name, r.datas)]
    ELSE IF r.line_type = GFALineMembers.WALK \/ r.line_type = GFALineMembers.PATH
    THEN [g EXCEPT !.paths = Put(g.paths, r.name, r.datas)]
    ELSE IF "LINK" \notin DOMAIN GFALineMembers
    THEN [g EXCEPT !.raised = "AttributeError"]
    ELSE IF r.line_type = GFALineMembers["LINK"]
    THEN IF ~Has(g.lines, r.name)
         THEN [g EXCEPT !.lines = Put(g.lines, r.name, r.datas)]
         ELSE [g EXCEPT !.lines = Put(g.lines, r.name,
                  [Get(g.lines, r.name) EXCEPT !.orientation = @ \cup r.datas.orientation])]
    ELSE IF r.line_type = GFALineMembers.HEADER
    THEN [g EXCEPT !.headers = Append(g.headers, r.datas)]
    ELSE g

\* Graph.__init__, the loop over the lines of the file
RECURSIVE LoadLines(_, _, _, _, _)
LoadLines(gfa_file, i, g, with_sequence, low_memory) ==
    IF i > Len(gfa_file) THEN g
    ELSE Once(Once(StrippedFields(gfa_file[i]),
                   LAMBDA datas : read_gfa_line(datas, with_sequence /\ ~low_memory,
                                                low_memory)),
              LAMBDA r :
                 IF r.raised # NoError THEN [g EXCEPT !.raised = r.raised]
                 ELSE Once(InsertLine(g, r), LAMBDA g2 :
                         IF g2.raised # NoError THEN g2
                         ELSE LoadLines(gfa_file, i + 1, g2, with_sequence, low_memory)))

\* The generator behind metadata['next_node_name'] is count(start=1) filtered
\* on the segment ids: its state is the next integer it will try.  In
\* low-memory mode the entry is the string 'unknown' (modelled as 0).
Metadata(version, with_sequence, low_memory) ==
    [version |-> version, next_node_name |-> IF low_memory THEN 0 ELSE 1,
     with_sequence |-> with_sequence, PO |-> FALSE]

\* Graph(gfa_file, with_sequence, low_memory): [raised, graph, metadata]
Construct(gfa_file, with_sequence, low_memory) ==
    LET empty == GraphOf(<<>>, <<>>, <<>>, <<>>, NoError)
    IN Once(IF gfa_file # NoFile /\ ~low_memory THEN get_gfa_format(gfa_file)
            ELSE [raised |-> NoError, version |-> FormatStr("unknown")],
            LAMBDA fmt :
               IF fmt.raised # NoError
               THEN [raised |-> fmt.raised, graph |-> empty,
                     metadata |-> Metadata(fmt.version, with_sequence, low_memory)]
               ELSE Once(IF gfa_file = NoFile THEN empty
                         ELSE LoadLines(gfa_file, 1, empty, with_sequence, low_memory),
                         LAMBDA g :
                            [raised |-> g.raised, graph |-> g,
                             metadata |-> Metadata(fmt.version, with_sequence,
                                                   low_memory)]))

\* ------------------------------------------------------------ calls
Snapshot == [segments |-> segments, lines |-> lines, paths |-> paths]
Call(op, args, raised) == [op |-> op, args |-> args, raised |-> raised]
\* An Editor call: the graph exists, and the call is counted
Editing == alive /\ calls < MaxCalls
Returned(op, args, raised) ==
    /\ last' = Call(op, args, raised)
    /\ pre' = Snapshot
    /\ calls' = calls + 1
    /\ UNCHANGED <<alive, headers, disk, pool>>

\* What an Editor call leaves: the three collections and the exception raised
Outcome(segs, lns, pths, raised) ==
    [segments |-> segs, lines |-> lns, paths |-> pths, raised |-> raised]
Commit(r) ==
    /\ segments' = r.segments
    /\ lines' = r.lines
    /\ paths' = r.paths

\* ------------------------------------------------------------ add_node
\* The segment dict add_node stores (no **metadata is passed)
NewNode(with_sequence, sequence) ==
    IF ~with_sequence
    THEN SegmentDatas(FALSE, <<>>, Len(sequence), <<>>)
    ELSE SegmentDatas(TRUE, sequence, Len(sequence), <<>>)
AddNode(segs, with_sequence, name, sequence) ==
    Put(segs, name, NewNode(with_sequence, sequence))

add_node(name, sequence) ==
    /\ Editing
    /\ Commit(Outcome(AddNode(segments, metadata.with_sequence, name, sequence),
                      lines, paths, NoError))
    /\ Returned("add_node", <<name, sequence>>, NoError)
    /\ UNCHANGED metadata

\* ------------------------------------------------------------ add_edge
\* An orientation argument is one of '+', '-', '?', '=' or, failing that, its
\* .value is taken; anything without a .value raises ValueError.
OriAccepted(o) == o \in OriChars \/ o \in OriMembers
OriNormal(o) == IF o \in OriChars THEN o ELSE OriValue(o)
\* The edge dict after add_edge on an existing key: the pair joins the set
UnionOrientation(edge, pair) == [edge EXCEPT !.orientation = @ \cup {pair}]
AddEdge(lns, source, ori_source, sink, ori_sink) ==
    LET pair == <<Orientation(OriNormal(ori_source)), Orientation(OriNormal(ori_sink))>>
        key == <<source, sink>>
    IN IF ~Has(lns, key)
       THEN Put(lns, key, LineDatas({pair}, Absent, Absent, <<>>))
       ELSE Put(lns, key, UnionOrientation(Get(lns, key), pair))

add_edge(source, ori_source, sink, ori_sink) ==
    /\ Editing
    /\ IF ~OriAccepted(ori_sink) \/ ~OriAccepted(ori_source)
       THEN /\ Commit(Outcome(segments, lines, paths, "ValueError"))
            /\ Returned("add_edge", <<source, ori_source, sink, ori_sink>>, "ValueError")
       ELSE /\ Commit(Outcome(segments, AddEdge(lines, source, ori_source, sink, ori_sink),
                              paths, NoError))
            /\ Returned("add_edge", <<source, ori_source, sink, ori_sink>>, NoError)
    /\ UNCHANGED metadata

\* ------------------------------------------------------------ add_path
RECURSIVE SumLengths(_, _)
SumLengths(segs, chain) ==
    IF chain = <<>> THEN 0 ELSE Get(segs, chain[1][1]).length + SumLengths(segs, Tail(chain))
\* add_path(identifier, name, chain, start, end, origin=None); end is None or an int
AddPath(g, identifier, name, chain, start, end) ==
    IF end = PyNone /\ \E i \in 1..Len(chain) : ~Has(g.segments, chain[i][1])
    THEN Outcome(g.segments, g.lines, g.paths, "KeyError")
    ELSE Outcome(g.segments, g.lines,
             Put(g.paths, name,
                 PathDatas(identifier, name, PyNone, PyInt(start),
                           IF end # PyNone THEN end ELSE PyInt(SumLengths(g.segments, chain)),
                           chain, <<>>)),
             NoError)

add_path(identifier, name, chain, start, end) ==
    /\ Editing
    /\ LET r == AddPath(Snapshot, identifier, name, chain, start, end)
       IN Commit(r) /\ Returned("add_path", <<name, chain, end, start>>, r.raised)
    /\ UNCHANGED metadata

\* ------------------------------------------------------------ get_*_edges
\* The keys of the edges of a node, in the order of the dict
KeysOf(d) == [i \in 1..Len(d) |-> d[i].k]
get_out_edges(lns, node_name) == KeysOf(SelectSeq(lns, LAMBDA e : e.k[1] = node_name))
get_in_edges(lns, node_name) == KeysOf(SelectSeq(lns, LAMBDA e : e.k[2] = node_name))
get_edges(lns, node_name) ==
    KeysOf(SelectSeq(lns, LAMBDA e : e.k[1] = node_name \/ e.k[2] = node_name))

\* ------------------------------------------------------------ rename_node
\* The loop over the edges of old_name: each is popped, its 'start' or 'end'
\* entry is rewritten, and it is stored under (edge['start'], edge['end']).
RECURSIVE RenameEdges(_, _, _, _)
RenameEdges(lns, todo, old_name, new_name) ==
    IF todo = <<>> THEN [lines |-> lns, raised |-> NoError]
    ELSE IF ~Has(lns, Head(todo)) THEN [lines |-> lns, raised |-> "KeyError"]
    ELSE LET edge == Get(lns, Head(todo))
             popped == Pop(lns, Head(todo))
             edited == IF edge.start = old_name THEN [edge EXCEPT !.start = new_name]
                       ELSE [edge EXCEPT !.end = new_name]
         IN IF edge.start = Absent THEN [lines |-> popped, raised |-> "KeyError"]
            ELSE IF edited.end = Absent THEN [lines |-> popped, raised |-> "KeyError"]
            ELSE RenameEdges(Put(popped, <<edited.start, edited.end>>, edited),
                             Tail(todo), old_name, new_name)
RenameInPath(path, old_name, new_name) ==
    [i \in 1..Len(path) |-> IF path[i][1] = old_name THEN <<new_name, path[i][2]>> ELSE path[i]]
RenameInPaths(pths, old_name, new_name) ==
    [i \in 1..Len(pths) |->
        [k |-> pths[i].k,
         v |-> [pths[i].v EXCEPT !.path = RenameInPath(@, old_name, new_name)]]]
RenameNode(g, old_name, new_name) ==
    IF ~Has(g.segments, old_name) THEN Outcome(g.segments, g.lines, g.paths, NoError)
    ELSE LET segs == Put(Pop(g.segments, old_name), new_name, Get(g.segments, old_name))
             edges == RenameEdges(g.lines, get_edges(g.lines, old_name), old_name, new_name)
         IN IF edges.raised # NoError THEN Outcome(segs, edges.lines, g.paths, edges.raised)
            ELSE Outcome(segs, edges.lines, RenameInPaths(g.paths, old_name, new_name), NoError)

rename_node(old_name, new_name) ==
    /\ Editing
    /\ LET r == RenameNode(Snapshot, old_name, new_name)
       IN Commit(r) /\ Returned("rename_node", <<old_name, new_name>>, r.raised)
    /\ UNCHANGED metadata

\* ------------------------------------------------------------ merge_segments
\* A concatenation that puts the node before what was gathered so far
ConcatBefore(acc, node_datas) ==
    (IF node_datas.hasSeq THEN node_datas.seq ELSE NRun(node_datas.length)) \o acc
\* The loop that pops the merged nodes and concatenates their sequences
Concat(acc, node_datas) ==
    acc \o (IF node_datas.hasSeq THEN node_datas.seq ELSE NRun(node_datas.length))
RECURSIVE MergePop(_, _, _)
MergePop(segs, names, new_node_seq) ==
    IF names = <<>> THEN [segments |-> segs, seq |-> new_node_seq, raised |-> NoError]
    ELSE IF ~Has(segs, Head(names))
    THEN [segments |-> segs, seq |-> new_node_seq, raised |-> "KeyError"]
    ELSE MergePop(Pop(segs, Head(names)), Tail(names),
                  Concat(new_node_seq, Get(segs, Head(names))))
\* The in-edges of the first node are re-keyed to (source, merge_name)
RECURSIVE ReconnectLeft(_, _, _)
ReconnectLeft(lns, todo, merge_name) ==
    IF todo = <<>> THEN [lines |-> lns, raised |-> NoError]
    ELSE IF ~Has(lns, Head(todo)) THEN [lines |-> lns, raised |-> "KeyError"]
    ELSE ReconnectLeft(
             Put(Pop(lns, Head(todo)), <<Head(todo)[1], merge_name>>,
                 [Get(lns, Head(todo)) EXCEPT !.end = merge_name]),
             Tail(todo), merge_name)
\* The out-edges of the last node are re-keyed to (merge_name, sink)
RECURSIVE ReconnectRight(_, _, _)
ReconnectRight(lns, todo, merge_name) ==
    IF todo = <<>> THEN [lines |-> lns, raised |-> NoError]
    ELSE IF ~Has(lns, Head(todo)) THEN [lines |-> lns, raised |-> "KeyError"]
    ELSE ReconnectRight(
             Put(Pop(lns, Head(todo)), <<merge_name, Head(todo)[2]>>,
                 [Get(lns, Head(todo)) EXCEPT !.start = merge_name]),
             Tail(todo), merge_name)
\* segs == path_nodes[i:i+len(segs)]: segs is the tuple of the *segs arguments
\* and the slice is a list, and in Python a tuple never equals a list.
TupleEqualsList(segs, window) == FALSE
\* lst[start:stop] = repl, with Python's reading of a negative stop
PySliceAssign(lst, start, stop, repl) ==
    LET n == Len(lst)
        lo == Min(start, n)
        hi0 == IF stop < 0 THEN (IF stop + n < 0 THEN 0 ELSE stop + n) ELSE Min(stop, n)
        hi == IF hi0 < lo THEN lo ELSE hi0
    IN SubSeq(lst, 1, lo) \o repl \o SubSeq(lst, hi + 1, n)
PathNodeNames(path) == [i \in 1..Len(path) |-> path[i][1]]
\* The positions of the run in the path, last first
RECURSIVE MergePositions(_, _, _)
MergePositions(path, segs, i) ==
    IF i > Len(path) - Len(segs) THEN <<>>
    ELSE MergePositions(path, segs, i + 1)
         \o (IF TupleEqualsList(segs, PySlice(PathNodeNames(path), i, i + Len(segs)))
             THEN <<i>> ELSE <<>>)
RECURSIVE MergeInPath(_, _, _, _)
MergeInPath(path, positions, k, merge_name) ==
    IF positions = <<>> THEN path
    ELSE MergeInPath(PySliceAssign(path, Head(positions), Head(positions) - k + 1, <<merge_name>>),
                     Tail(positions), k, merge_name)
MergeInPaths(pths, segs, merge_name) ==
    [i \in 1..Len(pths) |->
        [k |-> pths[i].k,
         v |-> [pths[i].v EXCEPT !.path =
                   MergeInPath(@, MergePositions(@, segs, 0), Len(segs), merge_name)]]]

MergeSegments(g, with_sequence, segs, merge_name) ==
    LET popped == MergePop(g.segments, segs, <<>>)
        added == AddNode(popped.segments, with_sequence, merge_name, popped.seq)
        left == ReconnectLeft(g.lines, get_in_edges(g.lines, segs[1]), merge_name)
        right == ReconnectRight(left.lines, get_out_edges(g.lines, segs[Len(segs)]), merge_name)
    IN IF popped.raised # NoError THEN Outcome(popped.segments, g.lines, g.paths, popped.raised)
       ELSE IF segs = <<>> THEN Outcome(added, g.lines, g.paths, "IndexError")
       ELSE IF left.raised # NoError THEN Outcome(added, left.lines, g.paths, left.raised)
       ELSE IF right.raised # NoError THEN Outcome(added, right.lines, g.paths, right.raised)
       ELSE Outcome(added, right.lines, MergeInPaths(g.paths, segs, merge_name), NoError)

merge_segments(segs, merge_name) ==
    /\ Editing
    /\ LET r == MergeSegments(Snapshot, metadata.with_sequence, segs, merge_name)
       IN Commit(r) /\ Returned("merge_segments", <<segs, merge_name>>, r.raised)
    /\ UNCHANGED metadata

\* ------------------------------------------------------------ split_segments
\* The first statement after the edge loop rewrites the 'seq' entry of the
\* node to split in place, and leaves its 'length' entry as it was.
TruncateFirst(node_to_split, stop) ==
    [node_to_split EXCEPT
        !.hasSeq = TRUE,
        !.seq = IF node_to_split.hasSeq THEN PySlice(node_to_split.seq, 0, stop) ELSE NRun(stop)]
\* split_segments without the comparison of the two lengths
SplitSegmentsUnchecked(g, with_sequence, segment_name, future_segment_name, position_to_split) ==
    LET edges_of_node == get_edges(g.lines, segment_name)
        node_to_split == Get(g.segments, segment_name)
        sequence == IF node_to_split.hasSeq THEN node_to_split.seq
                    ELSE NRun(node_to_split.length)
        edited == Put(g.segments, segment_name,
                      TruncateFirst(node_to_split, position_to_split[1][2]))
    IN IF ~Has(g.segments, segment_name)
       THEN Outcome(g.segments, g.lines, g.paths, "KeyError")
       ELSE IF edges_of_node # <<>>
       THEN Outcome(g.segments, g.lines, g.paths,
                    IF Get(g.lines, edges_of_node[1]).start = Absent
                    THEN "KeyError" ELSE "AttributeError")
       ELSE IF position_to_split = <<>>
       THEN Outcome(g.segments, g.lines, g.paths, "IndexError")
       ELSE IF future_segment_name[1] = segment_name
       THEN Outcome(edited, g.lines, g.paths, "TypeError")
       ELSE Outcome(AddNode(edited, with_sequence, future_segment_name[1],
                            PySlice(sequence, position_to_split[1][1], position_to_split[1][2])),
                    g.lines, g.paths, "UnboundLocalError")
\* The loop over the edges of the node reads edge['start'], a key no edge has
\* unless merge_segments or rename_node set it, then edge.datas or the .value
\* of the orientation set: it raises on the first edge.  Without edges the
\* local `orient` is never bound, and the first turn of the loop over the
\* fragments raises: on del self.segments[node_to_split] (a dict as a key) when
\* the first fragment keeps the name, else on add_edge(..., ori_source=orient).
SplitSegments(g, with_sequence, segment_name, future_segment_name, position_to_split) ==
    LET edges_of_node == get_edges(g.lines, segment_name)
        node_to_split == Get(g.segments, segment_name)
        sequence == IF node_to_split.hasSeq THEN node_to_split.seq
                    ELSE NRun(node_to_split.length)
        edited == Put(g.segments, segment_name,
                      TruncateFirst(node_to_split, position_to_split[1][2]))
    IN IF ~Has(g.segments, segment_name)
       THEN Outcome(g.segments, g.lines, g.paths, "KeyError")
       ELSE IF Len(future_segment_name) # Len(position_to_split)
       THEN Outcome(g.segments, g.lines, g.paths, "ValueError")
       ELSE IF edges_of_node # <<>>
       THEN Outcome(g.segments, g.lines, g.paths,
                    IF Get(g.lines, edges_of_node[1]).start = Absent
                    THEN "KeyError" ELSE "AttributeError")
       ELSE IF position_to_split = <<>>
       THEN Outcome(g.segments, g.lines, g.paths, "IndexError")
       ELSE IF future_segment_name[1] = segment_name
       THEN Outcome(edited, g.lines, g.paths, "TypeError")
       ELSE Outcome(AddNode(edited, with_sequence, future_segment_name[1],
                            PySlice(sequence, position_to_split[1][1], position_to_split[1][2])),
                    g.lines, g.paths, "UnboundLocalError")

split_segments(segment_name, future_segment_name, position_to_split) ==
    /\ Editing
    /\ LET r == SplitSegments(Snapshot, metadata.with_sequence, segment_name,
                              future_segment_name, position_to_split)
       IN /\ Commit(r)
          /\ Returned("split_segments",
                      <<segment_name, future_segment_name, position_to_split>>, r.raised)
    /\ UNCHANGED metadata

\* ------------------------------------------------------------ add_dovetails
SourceName == <<"s", "o", "u", "r", "c", "e">>
SinkName == <<"s", "i", "n", "k">>
\* The loop over the paths: two edges per path, and the walk extended with
\* ('source', '+') and ('sink', '+'), whose orientation is the raw character.
RECURSIVE DovetailPaths(_, _, _)
DovetailPaths(lns, pths, i) ==
    IF i > Len(pths) THEN [lines |-> lns, paths |-> pths, raised |-> NoError]
    ELSE LET path == pths[i].v.path
             first == path[1]
             final == path[Len(path)]
         IN IF path = <<>> THEN [lines |-> lns, paths |-> pths, raised |-> "IndexError"]
            ELSE IF ~OriAccepted(first[2])
            THEN [lines |-> lns, paths |-> pths, raised |-> "ValueError"]
            ELSE IF ~OriAccepted(final[2])
            THEN [lines |-> AddEdge(lns, SourceName, first[2], first[1], first[2]),
                  paths |-> pths, raised |-> "ValueError"]
            ELSE DovetailPaths(
                     AddEdge(AddEdge(lns, SourceName, first[2], first[1], first[2]),
                             final[1], final[2], SinkName, final[2]),
                     [pths EXCEPT ![i].v.path =
                         <<<<SourceName, <<"+">>>>>> \o path \o <<<<SinkName, <<"+">>>>>>],
                     i + 1)
AddDovetails(g, with_sequence) ==
    LET segs == AddNode(AddNode(g.segments, with_sequence, SourceName, <<>>),
                        with_sequence, SinkName, <<>>)
        r == DovetailPaths(g.lines, g.paths, 1)
    IN Outcome(segs, r.lines, r.paths, r.raised)

add_dovetails ==
    /\ Editing
    /\ LET r == AddDovetails(Snapshot, metadata.with_sequence)
       IN Commit(r) /\ Returned("add_dovetails", <<>>, r.raised)
    /\ UNCHANGED metadata

\* ------------------------------------------------------------ unfold
\* next(metadata['next_node_name']): the first integer, from the generator's
\* position on, whose text is not a segment id
RECURSIVE NextFree(_, _)
NextFree(segs, x) == IF Has(segs, IntToText(x)) THEN NextFree(segs, x + 1) ELSE x
\* nodes_correspondances.get(node, None)[count - 1] succeeds when the list
\* exists and has more than count - 1 entries
KnownDuplicate(corr, node, count) == Has(corr, node) /\ Len(Get(corr, node)) > count - 1
UnfoldState(segs, lns, pths, corr, next, raised) ==
    [segments |-> segs, lines |-> lns, paths |-> pths, corr |-> corr,
     next |-> next, raised |-> raised]
\* One waypoint of one path: st is the graph so far, seen the visit counts
RECURSIVE UnfoldPath(_, _, _, _)
UnfoldPath(st, p, i, seen) ==
    IF i > Len(st.paths[p].v.path) THEN st
    ELSE LET path == st.paths[p].v.path
             node == path[i][1]
             ori == path[i][2]
             count == (IF Has(seen, node) THEN Get(seen, node) ELSE 0) + 1
             seen2 == Put(seen, node, count)
             known == KnownDuplicate(st.corr, node, count)
             fresh == NextFree(st.segments, st.next)
             next_node_name == IF known THEN Get(st.corr, node)[count] ELSE IntToText(fresh)
             corr2 == IF known THEN st.corr
                      ELSE Put(st.corr, node,
                               (IF Has(st.corr, node) THEN Get(st.corr, node) ELSE <<>>)
                               \o <<next_node_name>>)
             next2 == IF known THEN st.next ELSE fresh + 1
             segs2 == IF known THEN st.segments
                      ELSE AddNode(st.segments, TRUE, next_node_name, Get(st.segments, node).seq)
         IN IF count <= 1 THEN UnfoldPath(st, p, i + 1, seen2)
            ELSE IF ~known /\ st.next = 0 THEN [st EXCEPT !.raised = "TypeError"]
            ELSE IF ~known /\ (~Has(st.segments, node) \/ ~Get(st.segments, node).hasSeq)
            THEN [st EXCEPT !.next = next2, !.raised = "KeyError"]
            ELSE IF ~OriAccepted(ori) \/ ~OriAccepted(path[i - 1][2])
            THEN [st EXCEPT !.segments = segs2, !.corr = corr2, !.next = next2,
                            !.raised = "ValueError"]
            ELSE UnfoldPath(
                     UnfoldState(segs2,
                                 AddEdge(st.lines, path[i - 1][1], path[i - 1][2], next_node_name, ori),
                                 [st.paths EXCEPT ![p].v.path[i] = <<next_node_name, ori>>],
                                 corr2, next2, NoError),
                     p, i + 1, seen2)
RECURSIVE UnfoldPaths(_, _)
UnfoldPaths(st, p) ==
    IF p > Len(st.paths) \/ st.raised # NoError THEN st
    ELSE UnfoldPaths(UnfoldPath(st, p, 1, <<>>), p + 1)
Unfold(g, meta) ==
    IF Len(g.paths) = 0
    THEN UnfoldState(g.segments, g.lines, g.paths, <<>>, meta.next_node_name, "NotImplementedError")
    ELSE IF ~meta.with_sequence
    THEN UnfoldState(g.segments, g.lines, g.paths, <<>>, meta.next_node_name, "RuntimeError")
    ELSE UnfoldPaths(UnfoldState(g.segments, g.lines, g.paths, <<>>, meta.next_node_name, NoError), 1)

unfold ==
    /\ Editing
    /\ LET r == Unfold(Snapshot, metadata)
       IN /\ Commit(r)
          /\ metadata' = [metadata EXCEPT !.next_node_name = r.next]
          /\ Returned("unfold", <<>>, r.raised)

\* ------------------------------------------------------------ reconstruct_sequences
\* Graph.reconstruct_sequences(): RuntimeError when metadata['with_sequence']
\* is unset; else a dict of generators is returned, and no segment is read
\* before a generator is consumed
ReconstructSequences(meta) == IF ~meta.with_sequence THEN "RuntimeError" ELSE NoError

reconstruct_sequences ==
    /\ Editing
    /\ Commit(Snapshot)
    /\ Returned("reconstruct_sequences", <<>>, ReconstructSequences(metadata))
    /\ UNCHANGED metadata

POKey == <<"P", "O">>
\* A path name as a key of the PO dict
NameValue(name) == IF name = None THEN PyNone ELSE PyStr(name)
\* (start_offset, start_offset + length, vect.value)
OffsetEntry(start_offset, length, vect) ==
    PyTuple(<<PyInt(start_offset), PyInt(start_offset + length), PyStr(OriValue(vect))>>)
\* self.segments[node]['PO'] of a segment dict: the entries of the dict, or
\* none when the key is not set
OffsetsOf(segment_datas) ==
    IF Has(segment_datas.tags, POKey) THEN Get(segment_datas.tags, POKey).s ELSE <<>>
\* The segment dict once the entry of one waypoint is recorded: appended to
\* the list of the walk, or the first of a new list
WithOffset(segment_datas, walk_name, entry) ==
    LET po == OffsetsOf(segment_datas)
        key == NameValue(walk_name)
    IN [segment_datas EXCEPT !.tags =
           Put(@, POKey,
               PyDict(IF Has(po, key)
                      THEN Put(po, key, PyList(Append(Get(po, key).s, entry)))
                      ELSE Put(po, key, PyList(<<entry>>))))]
\* The segment dict with an empty PO dict, as it is left when vect.value raises
WithEmptyOffsets(segment_datas) ==
    IF Has(segment_datas.tags, POKey) THEN segment_datas
    ELSE [segment_datas EXCEPT !.tags = Put(@, POKey, PyDict(<<>>))]
\* The loop over the waypoints of one walk, then over the walks: [segments,
\* raised].  self.segments[node] raises KeyError for a waypoint that is not a
\* segment, vect.value raises AttributeError for an orientation that is not
\* a member of Orientation; what was recorded before stays recorded.
RECURSIVE WalkOffsets(_, _, _, _, _)
WalkOffsets(segs, walk_name, walk, i, start_offset) ==
    IF i > Len(walk) THEN [segments |-> segs, raised |-> NoError]
    ELSE LET node == walk[i][1]
             vect == walk[i][2]
         IN IF ~Has(segs, node) THEN [segments |-> segs, raised |-> "KeyError"]
            ELSE IF vect \notin OriMembers
            THEN [segments |-> Put(segs, node, WithEmptyOffsets(Get(segs, node))),
                  raised |-> "AttributeError"]
            ELSE WalkOffsets(
                     Put(segs, node,
                         WithOffset(Get(segs, node), walk_name,
                                    OffsetEntry(start_offset, Get(segs, node).length, vect))),
                     walk_name, walk, i + 1, start_offset + Get(segs, node).length)
RECURSIVE PathOffsets(_, _, _)
PathOffsets(segs, pths, p) ==
    IF p > Len(pths) THEN [segments |-> segs, raised |-> NoError]
    ELSE LET r == WalkOffsets(segs, pths[p].k, pths[p].v.path, 1, 0)
         IN IF r.raised # NoError THEN r ELSE PathOffsets(r.segments, pths, p + 1)
\* The offsets computed on every call, whatever metadata holds
SequenceOffsetsAlways(segs, pths, meta, recalculate) == PathOffsets(segs, pths, 1)
\* Graph.sequence_offsets(recalculate): the offsets are computed when
\* metadata has no 'PO' or recalculate is set, and metadata['PO'] is set last
SequenceOffsets(segs, pths, meta, recalculate) ==
    IF ~meta.PO \/ recalculate THEN PathOffsets(segs, pths, 1)
    ELSE [segments |-> segs, raised |-> NoError]

sequence_offsets(recalculate) ==
    /\ Editing
    /\ \E r \in {SequenceOffsets(segments, paths, metadata, recalculate)} :
          /\ Commit(Outcome(r.segments, lines, paths, r.raised))
          /\ metadata' = IF r.raised = NoError THEN [metadata EXCEPT !.PO = TRUE]
                         ELSE metadata
          /\ Returned("sequence_offsets", <<recalculate>>, r.raised)

\* ------------------------------------------------------------ save_graph
\* str(value), as the f-strings of save_graph render a value
PyRepr(value) ==
    CASE value.t = "int" -> IntRepr(value.i)
      [] value.t = "bool" -> IF value.i = 1 THEN <<"T", "r", "u", "e">>
                             ELSE <<"F", "a", "l", "s", "e">>
      [] value.t = "float" -> value.s
      [] value.t = "str" -> value.s
      [] value.t = "None" -> <<"N", "o", "n", "e">>
\* bool(value), as `if path_datas['origin']` reads a value
Truthy(value) ==
    CASE value.t \in {"int", "bool"} -> value.i # 0
      [] value.t = "None" -> FALSE
      [] value.t = "float" -> value.s \notin {<<"0", ".", "0">>, <<"-", "0", ".", "0">>}
      [] OTHER -> value.s # <<>>
\* f"{name}" for a dict key: the key None prints as the word None
NameText(name) == IF name = None THEN <<"N", "o", "n", "e">> ELSE name

\* get_python_type(data): the type letter, or "ValueError" when dumps cannot
\* write the data.  isinstance(data, int) holds for a bool.
get_python_type(data) ==
    CASE data.t \in {"int", "bool"} -> "i" [] data.t = "float" -> "f"
      [] data.t = "str" -> "Z"
      [] OTHER -> IF Serializable(data) THEN "J" ELSE "ValueError"
\* set_gfa_type(tag_type)(value)
set_gfa_type(tag_type, value) ==
    IF tag_type = "J" THEN dumps(value) ELSE PyRepr(value)
\* key.startswith('ARG')
IsArg(key) == Len(key) >= 3 /\ SubSeq(key, 1, 3) = <<"A", "R", "G">>
\* f"{key}:{get_python_type(value)}:{set_gfa_type(...)(value)}", or str(value)
\* for a field that did not read as a tag
TagField(key, value) ==
    IF IsArg(key) THEN PyRepr(value)
    ELSE key \o <<":", get_python_type(value), ":">> \o set_gfa_type(get_python_type(value), value)
TagFields(tags) == [i \in 1..Len(tags) |-> TagField(tags[i].k, tags[i].v)]
\* supplementary_text of a segment, link or path line
SupplementaryText(tags, minimal_graph) ==
    IF minimal_graph THEN <<>> ELSE <<TAB>> \o Join(TagFields(tags), <<TAB>>)

\* The header lines
HeaderLine(header, minimal_graph) ==
    LET tagged == SelectSeq(header, LAMBDA e : ~IsArg(e.k))
        args == SelectSeq(header, LAMBDA e : IsArg(e.k))
    IN <<"H", TAB>> \o Join(TagFields(tagged), <<TAB>>)
       \o (IF minimal_graph THEN <<>>
           ELSE <<TAB>> \o Join([i \in 1..Len(args) |-> PyRepr(args[i].v)], <<TAB>>))
       \o <<NL>>
\* The segment lines: the resident sequence, or 'N' * length
SegmentLine(segment_name, segment_datas, minimal_graph) ==
    <<"S", TAB>> \o NameText(segment_name) \o <<TAB>>
    \o (IF segment_datas.hasSeq THEN segment_datas.seq ELSE NRun(segment_datas.length))
    \o SupplementaryText(segment_datas.tags, minimal_graph) \o <<NL>>
\* The link lines of one edge: one per orientation pair, in the order the set
\* yields them (rank: the pairs in that order)
LinkLine(source, sink, alt, line, minimal_graph) ==
    <<"L", TAB>> \o NameText(source) \o <<TAB>> \o OriValue(alt[1]) \o <<TAB>>
    \o NameText(sink) \o <<TAB>> \o OriValue(alt[2]) \o <<TAB, "0", "M">>
    \o SupplementaryText(line.tags, minimal_graph) \o <<NL>>
LinkLines(key, line, minimal_graph, rank) ==
    LET alts == SelectSeq(rank, LAMBDA alt : alt \in line.orientation)
    IN [i \in 1..Len(alts) |-> LinkLine(key[1], key[2], alts[i], line, minimal_graph)]
RECURSIVE AllLinkLines(_, _, _, _)
AllLinkLines(lns, i, minimal_graph, rank) ==
    IF i > Len(lns) THEN <<>>
    ELSE LinkLines(lns[i].k, lns[i].v, minimal_graph, rank)
         \o AllLinkLines(lns, i + 1, minimal_graph, rank)
\* The P-line of a path
PLine(path_name, path_datas, minimal_graph) ==
    LET walk == path_datas.path
        strpath == Join([i \in 1..Len(walk) |->
                            walk[i][1] \o (IF walk[i][2] = FORWARD THEN <<"+">> ELSE <<"-">>)],
                        <<",">>)
    IN <<"P", TAB>> \o NameText(path_name) \o <<TAB>> \o strpath
       \o SupplementaryText(path_datas.tags, minimal_graph) \o <<NL>>
\* A W-line written with a haplotype number that is never incremented
WLineNoIncrement(segs, path_name, path_datas, minimal_graph, haplotype_number) ==
    LET walk == path_datas.path
        offset_start == IF Truthy(path_datas.start_offset)
                        THEN PyRepr(path_datas.start_offset) ELSE <<"0">>
        offset_stop == IF Truthy(path_datas.stop_offset)
                       THEN PyRepr(path_datas.stop_offset)
                       ELSE IntRepr(SumLengths(segs, walk))
        origin == IF Truthy(path_datas.origin)
                  THEN PyRepr(path_datas.origin) ELSE IntRepr(0)
        strpath == Join([i \in 1..Len(walk) |->
                            (IF walk[i][2] = FORWARD \/ walk[i][2] = <<"+">>
                             THEN <<">">> ELSE <<"<">>) \o NameText(walk[i][1])],
                        <<>>)
    IN <<"W", TAB>> \o NameText(path_name) \o <<TAB>> \o origin \o <<TAB>>
       \o NameText(path_name) \o <<TAB>> \o offset_start \o <<TAB>> \o offset_stop
       \o <<TAB>> \o strpath \o SupplementaryText(path_datas.tags, minimal_graph) \o <<NL>>
\* The W-line of a path; haplotype_number stands in for an origin that is not set
WLine(segs, path_name, path_datas, minimal_graph, haplotype_number) ==
    LET walk == path_datas.path
        offset_start == IF Truthy(path_datas.start_offset)
                        THEN PyRepr(path_datas.start_offset) ELSE <<"0">>
        offset_stop == IF Truthy(path_datas.stop_offset)
                       THEN PyRepr(path_datas.stop_offset)
                       ELSE IntRepr(SumLengths(segs, walk))
        origin == IF Truthy(path_datas.origin)
                  THEN PyRepr(path_datas.origin) ELSE IntRepr(haplotype_number)
        strpath == Join([i \in 1..Len(walk) |->
                            (IF walk[i][2] = FORWARD \/ walk[i][2] = <<"+">>
                             THEN <<">">> ELSE <<"<">>) \o NameText(walk[i][1])],
                        <<>>)
    IN <<"W", TAB>> \o NameText(path_name) \o <<TAB>> \o origin \o <<TAB>>
       \o NameText(path_name) \o <<TAB>> \o offset_start \o <<TAB>> \o offset_stop
       \o <<TAB>> \o strpath \o SupplementaryText(path_datas.tags, minimal_graph) \o <<NL>>
\* The loop over the paths: [raised, file].  The walk of a P-line is built
\* with node_name + '+', which raises on the name None; the default stop of
\* a W-line sums the lengths of the segments of the walk, which raises on a
\* segment that is not there.
RECURSIVE PathLines(_, _, _, _, _, _)
PathLines(segs, pths, i, gfa_format, minimal_graph, written) ==
    IF i > Len(pths) THEN [raised |-> NoError, file |-> written]
    ELSE LET path_datas == pths[i].v
             walk == path_datas.path
         IN IF gfa_format = GFAFormat("GFA1") \/ gfa_format = GFAFormat("unknown")
            THEN IF \E j \in 1..Len(walk) : walk[j][1] = None
                 THEN [raised |-> "TypeError", file |-> written]
                 ELSE PathLines(segs, pths, i + 1, gfa_format, minimal_graph,
                                Append(written, PLine(pths[i].k, path_datas, minimal_graph)))
            ELSE IF gfa_format \in {GFAFormat("GFA1.1"), GFAFormat("GFA1.2"), GFAFormat("GFA2")}
            THEN IF ~Truthy(path_datas.stop_offset)
                    /\ \E j \in 1..Len(walk) : ~Has(segs, walk[j][1])
                 THEN [raised |-> "KeyError", file |-> written]
                 ELSE PathLines(segs, pths, i + 1, gfa_format, minimal_graph,
                                Append(written, WLine(segs, pths[i].k, path_datas,
                                                      minimal_graph, i - 1)))
            ELSE PathLines(segs, pths, i + 1, gfa_format, minimal_graph, written)

\* force_format=False: the dialect is not forced
NotForced == <<"False">>
\* The orders in which iterating over a set of orientation pairs can yield
\* them (the hash of an Enum member changes from one run to the next)
Orders(S) ==
    {rank \in [1..Cardinality(S) -> S] :
        \A i, j \in 1..Cardinality(S) : rank[i] = rank[j] => i = j}
\* GFAParser.save_graph(graph, output_path, force_format, minimal_graph):
\* [raised, file], the lines written.  force_format is NotForced or a member
\* of GFAFormat; metadata['version'] is the str get_gfa_format returned, and
\* a str equals no member of GFAFormat.
save_graph(g, hdrs, version, force_format, minimal_graph, rank) ==
    LET gfa_format == IF force_format = NotForced THEN version ELSE force_format
        head == IF hdrs # <<>> /\ gfa_format # GFAFormat("rGFA")
                THEN [i \in 1..Len(hdrs) |-> HeaderLine(hdrs[i], minimal_graph)]
                ELSE <<>>
        segs == [i \in 1..Len(g.segments) |->
                    SegmentLine(g.segments[i].k, g.segments[i].v, minimal_graph)]
        links == AllLinkLines(g.lines, 1, minimal_graph, rank)
    IN PathLines(g.segments, g.paths, 1, gfa_format, minimal_graph, head \o segs \o links)

\* ------------------------------------------------------------ global_offset
\* The frames one exploration may stack before the interpreter raises
\* RecursionError, and the calls of global_offset made on one graph
MaxDepth == 4
MaxRuns == 2
Max(a, b) == IF a >= b THEN a ELSE b
\* No call of global_offset is in progress.  GO holds segments[seg]['GO'],
\* successors holds segments[seg]['successors'] in the order the set is
\* iterated, marks holds the entries segments[seg][thread_name] as triples
\* <<seg, i, value>> for the thread 't<i>'.  previous is what the call before
\* left, runs counts the calls, overlapped tells that two explorations ran at
\* the same time.
Idle ==
    [state |-> "idle", reference |-> None, threads |-> 0, ref_path |-> <<>>,
     successors |-> <<>>, GO |-> <<>>, marks |-> {}, tasks |-> <<>>,
     previous |-> [valid |-> FALSE, GO |-> <<>>, successors |-> <<>>, threads |-> 0],
     runs |-> 0, overlapped |-> FALSE]
\* compute_child_nodes(): [raised, successors], a set of names for every
\* segment; an edge whose source is not a segment raises KeyError
compute_child_nodes(segs, lns) ==
    IF \E j \in 1..Len(lns) : ~Has(segs, lns[j].k[1])
    THEN [raised |-> "KeyError", successors |-> <<>>]
    ELSE [raised |-> NoError,
          successors |->
              [i \in 1..Len(segs) |->
                  [k |-> segs[i].k,
                   v |-> {lns[j].k[2] : j \in {j \in 1..Len(lns) : lns[j].k[1] = segs[i].k}}]]]
\* The orders in which the sets of successors can be iterated
IterationOrders(successors) ==
    {[i \in 1..Len(successors) |-> [k |-> successors[i].k, v |-> h[i]]] :
        h \in {h \in [1..Len(successors) ->
                         UNION {Orders(successors[i].v) : i \in 1..Len(successors)}] :
                  \A i \in 1..Len(successors) : h[i] \in Orders(successors[i].v)}}
\* One call of start_recursion, as submitted to the pool
Task(i, node_name, current_coord) ==
    [thread_name |-> i, node_name |-> node_name, current_coord |-> current_coord,
     status |-> "queued", stack |-> <<>>, entered |-> <<>>, raised |-> NoError]
\* One call of explore: where it is, the successors still to loop over, and
\* the value of the right-hand side it has evaluated and not stored yet
Frame(node_name, current_coord) ==
    [node_name |-> node_name, current_coord |-> current_coord, pc |-> "read_lo",
     todo |-> <<>>, value |-> 0]
ZeroOffsets(segs) == [i \in 1..Len(segs) |-> [k |-> segs[i].k, v |-> <<0, 0>>]]
\* global_offset up to the call of futures_collector: [raised, ref_path, GO,
\* successors, tasks].  The arguments of every task are evaluated before any
\* task is submitted, when every GO is [0, 0].
GlobalOffsetStart(segs, lns, pths, go, reference, threads) ==
    Once(compute_child_nodes(segs, lns), LAMBDA children :
        IF children.raised # NoError \/ ~Has(pths, reference)
        THEN [raised |-> "KeyError", ref_path |-> <<>>, GO |-> go,
              successors |-> children.successors, tasks |-> <<>>]
        ELSE Once(PathNodeNames(Get(pths, reference).path), LAMBDA ref_path :
                [raised |-> IF \E i \in 1..Len(ref_path) : ~Has(segs, ref_path[i])
                            THEN "KeyError"
                            ELSE IF threads <= 0 THEN "ValueError" ELSE NoError,
                 ref_path |-> ref_path, GO |-> ZeroOffsets(segs),
                 successors |-> children.successors,
                 tasks |-> [i \in 1..Len(ref_path) |-> Task(i - 1, ref_path[i], 0)]]))
Lo(go, n) == Get(go, n)[1]
Hi(go, n) == Get(go, n)[2]
WithLo(go, n, x) == Put(go, n, <<x, Get(go, n)[2]>>)
WithHi(go, n, x) == Put(go, n, <<Get(go, n)[1], x>>)
\* self.segments[successor_name][thread_name]
Visited(marks, seg, i) == <<seg, i, TRUE>> \in marks
\* The exception leaves start_recursion: the markers of the thread stay
Failed(task, exc) == [task EXCEPT !.status = "failed", !.raised = exc, !.stack = <<>>]
WithTop(p, i, f) == [p EXCEPT !.tasks[i].stack[Len(p.tasks[i].stack)] = f]
\* One step of explore in task i: a statement evaluates its right-hand side,
\* then stores it, and another thread may run in between
ExploreStep(p, segs, i, f) ==
    CASE f.pc = "read_lo" ->
            WithTop(p, i, [f EXCEPT !.value = Max(Lo(p.GO, f.node_name), f.current_coord),
                                    !.pc = "store_lo"])
      [] f.pc = "store_lo" ->
            WithTop([p EXCEPT !.GO = WithLo(@, f.node_name, f.value)], i,
                    [f EXCEPT !.pc = "read_hi"])
      [] f.pc = "read_hi" ->
            WithTop(p, i, [f EXCEPT !.value = Lo(p.GO, f.node_name)
                                               + Get(segs, f.node_name).length,
                                    !.pc = "store_hi"])
      [] f.pc = "store_hi" ->
            WithTop([p EXCEPT !.GO = WithHi(@, f.node_name, f.value)], i,
                    [f EXCEPT !.todo = Get(p.successors, f.node_name), !.pc = "loop"])
      [] f.pc = "loop" ->
            IF f.todo = <<>>
            THEN [p EXCEPT !.tasks[i].stack = SubSeq(@, 1, Len(@) - 1)]
            ELSE IF ~Has(segs, Head(f.todo))
            THEN [p EXCEPT !.tasks[i] = Failed(@, "KeyError")]
            ELSE IF Visited(p.marks, Head(f.todo), p.tasks[i].thread_name)
                    \/ \E k \in 1..Len(p.ref_path) : p.ref_path[k] = Head(f.todo)
            THEN WithTop(p, i, [f EXCEPT !.pc = "read_slo"])
            ELSE IF Len(p.tasks[i].stack) >= MaxDepth
            THEN [p EXCEPT !.tasks[i] = Failed(@, "RecursionError")]
            ELSE [p EXCEPT
                     !.tasks[i].stack =
                         SubSeq(@, 1, Len(@) - 1)
                         \o <<[f EXCEPT !.todo = Tail(@)],
                              Frame(Head(f.todo), Hi(p.GO, f.node_name))>>,
                     !.tasks[i].entered = Append(@, Head(f.todo))]
      [] f.pc = "read_slo" ->
            WithTop(p, i, [f EXCEPT !.value = Max(Lo(p.GO, Head(f.todo)), f.current_coord)
                                               + Get(segs, f.node_name).length,
                                    !.pc = "store_slo"])
      [] f.pc = "store_slo" ->
            WithTop([p EXCEPT !.GO = WithLo(@, Head(f.todo), f.value)], i,
                    [f EXCEPT !.pc = "read_shi"])
      [] f.pc = "read_shi" ->
            WithTop(p, i, [f EXCEPT !.value = Lo(p.GO, Head(f.todo))
                                               + Get(segs, Head(f.todo)).length,
                                    !.pc = "store_shi"])
      [] f.pc = "store_shi" ->
            WithTop([p EXCEPT !.GO = WithHi(@, Head(f.todo), f.value)], i,
                    [f EXCEPT !.todo = Tail(@), !.pc = "loop"])
\* The graph is left alone while the pool works
Working == UNCHANGED <<alive, segments, lines, paths, headers, metadata, disk>>
Running(tasks) == {j \in 1..Len(tasks) : tasks[j].status = "running"}
\* A collector that does not wait for the tasks
NoBarrier(tasks) == TRUE
\* ThreadPoolExecutor.__exit__ waits for every task submitted
Barrier(tasks) == \A j \in 1..Len(tasks) : tasks[j].status \in {"finished", "failed"}
\* [f.result() for f in futures]: the exception of the first task that raised
RECURSIVE FirstRaised(_)
FirstRaised(tasks) ==
    IF tasks = <<>> THEN NoError
    ELSE IF Head(tasks).raised # NoError THEN Head(tasks).raised
    ELSE FirstRaised(Tail(tasks))

\* Graph.global_offset(reference, threads) is called: it returns at once when
\* it raises before the pool exists, else its tasks are queued
global_offset(reference, threads) ==
    /\ alive /\ pool.state = "idle" /\ pool.runs < MaxRuns
    /\ \E r \in {GlobalOffsetStart(segments, lines, paths, pool.GO, reference, threads)} :
          IF r.raised # NoError
          THEN /\ pool' = [pool EXCEPT !.GO = r.GO, !.runs = @ + 1, !.tasks = <<>>,
                                       !.reference = reference, !.threads = threads]
               /\ last' = Call("global_offset", <<reference, threads>>, r.raised)
               /\ pre' = Snapshot
               /\ calls' = calls + 1
          ELSE /\ \E h \in IterationOrders(r.successors) :
                     pool' = [pool EXCEPT
                                 !.state = "running", !.reference = reference,
                                 !.threads = threads, !.ref_path = r.ref_path,
                                 !.successors = h, !.GO = r.GO, !.tasks = r.tasks,
                                 !.overlapped = FALSE,
                                 !.previous =
                                     [valid |-> /\ last.op = "global_offset"
                                                /\ last.raised = NoError
                                                /\ pool.reference = reference,
                                      GO |-> pool.GO, successors |-> pool.successors,
                                      threads |-> pool.threads]]
               /\ UNCHANGED <<last, pre, calls>>
    /\ Working
\* A worker of the pool takes the next task of the queue: start_recursion sets
\* the marker of its thread on every segment and calls explore
start_recursion(i) ==
    /\ pool.state = "running"
    /\ i \in 1..Len(pool.tasks)
    /\ pool.tasks[i].status = "queued"
    /\ \A j \in 1..(i - 1) : pool.tasks[j].status # "queued"
    /\ Cardinality(Running(pool.tasks)) < pool.threads
    /\ pool' = [pool EXCEPT
                   !.marks = @ \cup {<<segments[k].k, pool.tasks[i].thread_name, FALSE>> :
                                        k \in 1..Len(segments)},
                   !.tasks[i].status = "running",
                   !.tasks[i].stack =
                       <<Frame(pool.tasks[i].node_name, pool.tasks[i].current_coord)>>,
                   !.tasks[i].entered = <<pool.tasks[i].node_name>>,
                   !.overlapped = @ \/ Running(pool.tasks) # {}]
    /\ UNCHANGED <<last, pre, calls>>
    /\ Working
\* One step of the exploration of task i
explore(i) ==
    /\ pool.state = "running"
    /\ i \in Running(pool.tasks)
    /\ pool.tasks[i].stack # <<>>
    /\ \E f \in {pool.tasks[i].stack[Len(pool.tasks[i].stack)]} :
          pool' = ExploreStep(pool, segments, i, f)
    /\ UNCHANGED <<last, pre, calls>>
    /\ Working
\* explore has returned: start_recursion deletes the marker of its thread
\* from every segment and returns
end_recursion(i) ==
    /\ pool.state = "running"
    /\ i \in Running(pool.tasks)
    /\ pool.tasks[i].stack = <<>>
    /\ pool' = [pool EXCEPT
                   !.marks = {m \in @ : m[2] # pool.tasks[i].thread_name},
                   !.tasks[i].status = "finished"]
    /\ UNCHANGED <<last, pre, calls>>
    /\ Working
\* futures_collector leaves the with block and collects the results:
\* global_offset returns, or raises what the first failed task raised
futures_collector ==
    /\ pool.state = "running"
    /\ Barrier(pool.tasks)
    /\ pool' = [pool EXCEPT !.state = "idle", !.runs = @ + 1]
    /\ last' = Call("global_offset", <<pool.reference, pool.threads>>,
                    FirstRaised(pool.tasks))
    /\ pre' = Snapshot
    /\ calls' = calls + 1
    /\ Working

\* ------------------------------------------------------------ inputs
n1 == <<"1">>
n2 == <<"2">>
n3 == <<"3">>
n12 == <<"1", "2">>
p1 == <<"p", "1">>
\* One line of a file: its fields joined by tabs, and the newline
Line(fields) == Join(fields, <<TAB>>) \o <<NL>>
\* S 1 AC / S 2 G / P p1 1+,2+ *
FileSP ==
    <<Line(<<<<"S">>, n1, <<"A", "C">>>>),
      Line(<<<<"S">>, n2, <<"G">>>>),
      Line(<<<<"P">>, p1, <<"1", "+", ",", "2", "+">>, <<"*">>>>)>>
\* S 1 AC / S 2 G / P p1 1+,2+,1+,2+ *
FileRepeat ==
    <<Line(<<<<"S">>, n1, <<"A", "C">>>>),
      Line(<<<<"S">>, n2, <<"G">>>>),
      Line(<<<<"P">>, p1, <<"1", "+", ",", "2", "+", ",", "1", "+", ",", "2", "+">>,
             <<"*">>>>)>>
\* The graphs the calls start from: <<gfa_file, with_sequence, low_memory>>
InitOptions ==
    {<<NoFile, TRUE, FALSE>>, <<NoFile, FALSE, FALSE>>,
     <<FileSP, TRUE, FALSE>>, <<FileSP, TRUE, TRUE>>, <<FileRepeat, TRUE, FALSE>>}
\* The arguments the calls are made with
NodeInputs == {<<n1, <<"A", "C">>>>, <<n1, <<"G">>>>, <<n2, <<"G">>>>, <<n3, <<"A", "C">>>>}
EdgeInputs ==
    {<<n1, <<"+">>, n2, <<"+">>>>, <<n2, <<"+">>, n1, <<"+">>>>,
     <<n3, <<"+">>, n1, <<"+">>>>, <<n2, <<"+">>, n3, <<"+">>>>,
     <<n1, REVERSE, n2, <<"+">>>>, <<n1, <<"x">>, n2, <<"+">>>>}
Chain12 == <<<<n1, FORWARD>>, <<n2, FORWARD>>>>
Chain1212 == <<<<n1, FORWARD>>, <<n2, REVERSE>>, <<n1, FORWARD>>, <<n2, REVERSE>>>>
\* <<chain, end, start>>
PathInputs ==
    {<<Chain12, PyNone, 0>>, <<Chain1212, PyNone, 0>>, <<Chain12, PyInt(3), 0>>,
     <<Chain12, PyNone, 2>>}
Halves == <<<<0, 1>>, <<1, 2>>>>
SplitInputs ==
    {<<n1, <<n1, n3>>, Halves>>, <<n1, <<n2, n3>>, Halves>>, <<n1, <<n3>>, Halves>>,
     <<n1, <<>>, <<>>>>, <<n3, <<n1, n2>>, Halves>>}
RenameInputs == {<<n1, n3>>, <<n1, n12>>, <<n2, n3>>, <<n2, n12>>}
MergeInputs ==
    {<<<<n1, n2>>, n12>>, <<<<n1, n2>>, n1>>, <<<<n1, n2>>, None>>,
     <<<<n2>>, n12>>, <<<<n2>>, n1>>, <<<<n2>>, None>>, <<<<>>, n12>>,
     <<<<n2, n3>>, n1>>}

\* ------------------------------------------------------------ the graph editor
Constructed(c) ==
    /\ alive = TRUE
    /\ segments = c.graph.segments
    /\ lines = c.graph.lines
    /\ paths = c.graph.paths
    /\ headers = c.graph.headers
    /\ metadata = c.metadata

Init ==
    /\ \E o \in InitOptions :
          /\ Construct(o[1], o[2], o[3]).raised = NoError
          /\ Constructed(Construct(o[1], o[2], o[3]))
          /\ last = Call("Graph", o, NoError)
    /\ pre = [segments |-> <<>>, lines |-> <<>>, paths |-> <<>>]
    /\ calls = 0
    /\ disk = <<>>
    /\ pool = Idle

Next ==
    \/ \E a \in NodeInputs : add_node(a[1], a[2])
    \/ \E a \in EdgeInputs : add_edge(a[1], a[2], a[3], a[4])
    \/ \E a \in PathInputs : add_path(p1, p1, a[1], a[3], a[2])
    \/ \E a \in SplitInputs : split_segments(a[1], a[2], a[3])
    \/ \E a \in RenameInputs : rename_node(a[1], a[2])
    \/ \E a \in MergeInputs : merge_segments(a[1], a[2])
    \/ add_dovetails
    \/ unfold
    \/ \E recalculate \in BOOLEAN : sequence_offsets(recalculate)
    \/ reconstruct_sequences

Spec == Init /\ [][Next]_vars

\* ------------------------------------------------------------ files
VN(version) == <<"V", "N", ":", "Z", ":">> \o version
HeaderLines ==
    [GFA1 |-> Line(<<<<"H">>, VN(<<"1", ".", "0">>)>>),
     GFA1_1 |-> Line(<<<<"H">>, VN(<<"1", ".", "1">>)>>),
     GFA1_2 |-> Line(<<<<"H">>, VN(<<"1", ".", "2">>)>>),
     GFA2 |-> Line(<<<<"H">>, VN(<<"2", ".", "0">>)>>)]
S1 == Line(<<<<"S">>, n1, <<"A", "C">>>>)
S2 == Line(<<<<"S">>, n2, <<"G">>, <<"L", "N", ":", "i", ":", "1">>>>)
L12 == Line(<<<<"L">>, n1, <<"+">>, n2, <<"+">>, <<"0", "M">>>>)
L12r == Line(<<<<"L">>, n1, <<"-">>, n2, <<"+">>, <<"0", "M">>>>)
P12 == Line(<<<<"P">>, p1, <<"1", "+", ",", "2", "+">>, <<"*">>>>)
W12 == Line(<<<<"W">>, <<"s">>, <<"0">>, <<"c">>, <<"0">>, <<"3">>, <<">", "1", ">", "2">>>>)
\* One file of each dialect: segments, links (one key twice, with two
\* orientations), and the paths or walks of the dialect
DialectFiles ==
    [rGFA |-> <<S1, S2, L12, L12r>>,
     GFA1 |-> <<HeaderLines.GFA1, S1, S2, L12, L12r, P12>>,
     GFA1_1 |-> <<HeaderLines.GFA1_1, S1, S2, L12, L12r, W12>>,
     GFA1_2 |-> <<HeaderLines.GFA1_2, S1, S2, L12, L12r, W12>>,
     GFA2 |-> <<HeaderLines.GFA2, S1, S2, L12, L12r, W12>>]
\* H VN:Z:1.0 / S 1 AAA / S 2 CCC / L 1 + 2 + 0M / P p1 1+,2+ *
S1AAA == Line(<<<<"S">>, n1, <<"A", "A", "A">>>>)
S2CCC == Line(<<<<"S">>, n2, <<"C", "C", "C">>>>)
Scenario1 == <<HeaderLines.GFA1, S1AAA, S2CCC, L12, P12>>
\* The lines short files are made of, and the files of at most MaxLines lines
LineAlphabet == <<HeaderLines.GFA1, S1, S2, L12, L12r, P12, W12>>
ShortFiles ==
    UNION {[1..n -> {LineAlphabet[i] : i \in 1..Len(LineAlphabet)}] : n \in 0..MaxLines}
\* Lines with optional fields: tags, and a field that is not a tag
TagLN == <<"L", "N", ":", "i", ":", "1">>
TagKC == <<"K", "C", ":", "f", ":", "1", ".", "5", "0">>
TagTP == <<"T", "P", ":", "Z", ":", "x">>
Loose == <<"l", "o", "o", "s", "e">>
STagged == Line(<<<<"S">>, n1, <<"A", "C">>, TagKC, Loose, TagLN>>)
LTagged == Line(<<<<"L">>, n1, <<"+">>, n2, <<"+">>, <<"0", "M">>, TagTP>>)
PTagged == Line(<<<<"P">>, p1, <<"1", "+", ",", "2", "+">>, <<"*">>, TagTP>>)
WTagged ==
    Line(<<<<"W">>, <<"s">>, <<"0">>, <<"c">>, <<"0">>, <<"3">>, <<">", "1", ">", "2">>,
           TagTP, Loose>>)
\* S 1 AC KC:f:1.50 loose LN:i:1 / W s 0 c 0 3 >1>2 TP:Z:x loose
TaggedFile == <<STagged, WTagged>>
\* S 1 AC / S 2 G LN:i:1 / W s 0 c 0 3 >1>2 / P p1 1+,2+ *: a walk with a
\* declared origin, then a path with none
TwoPaths == <<S1, S2, W12, P12>>
Files ==
    ShortFiles \cup {DialectFiles[d] : d \in DOMAIN DialectFiles} \cup {Scenario1, TwoPaths, TaggedFile}
\* <<with_sequence, low_memory>>
LoadInputs == {<<TRUE, FALSE>>, <<FALSE, FALSE>>, <<TRUE, TRUE>>}
\* <<minimal, output_format>>
SaveInputs ==
    {<<FALSE, NotForced>>, <<TRUE, NotForced>>, <<FALSE, GFAFormat("GFA1")>>,
     <<FALSE, GFAFormat("GFA1.1")>>, <<TRUE, GFAFormat("rGFA")>>,
     <<TRUE, GFAFormat("GFA1")>>, <<TRUE, GFAFormat("GFA1.2")>>,
     <<FALSE, GFAFormat("GFA2")>>, <<FALSE, GFAFormat("rGFA")>>}
LinkInputs == {<<n1, <<"+">>, n2, <<"+">>>>, <<n1, <<"-">>, n2, <<"+">>>>}

\* ------------------------------------------------------------ load and save
\* g = Graph(gfa_file, with_sequence, low_memory) on the file on disk.  When
\* the constructor raises there is no new graph, and g is what it was.
LoadGraph(with_sequence, low_memory) ==
    \E c \in {Construct(disk, with_sequence, low_memory)} :
       /\ IF c.raised = NoError
          THEN /\ alive' = TRUE
               /\ segments' = c.graph.segments
               /\ lines' = c.graph.lines
               /\ paths' = c.graph.paths
               /\ headers' = c.graph.headers
               /\ metadata' = c.metadata
               /\ calls' = 0
          ELSE UNCHANGED <<alive, segments, lines, paths, headers, metadata, calls>>
       /\ last' = Call("Graph", <<disk, with_sequence, low_memory>>, c.raised)
       /\ pre' = Snapshot
       /\ UNCHANGED <<disk, pool>>

\* Graph.save_graph(output_file, minimal, output_format) over the file on disk
SaveGraph(minimal, output_format) ==
    /\ alive
    /\ \E rank \in Orders(UNION {lines[i].v.orientation : i \in 1..Len(lines)}) :
          \E w \in {save_graph(Snapshot, headers, metadata.version, output_format,
                                minimal, rank)} :
             /\ disk' = w.file
             /\ last' = Call("save_graph", <<minimal, output_format>>, w.raised)
    /\ pre' = Snapshot
    /\ UNCHANGED <<alive, segments, lines, paths, headers, metadata, calls, pool>>

InitLoad ==
    /\ alive = FALSE
    /\ segments = <<>> /\ lines = <<>> /\ paths = <<>> /\ headers = <<>>
    /\ metadata = Metadata(FormatStr("unknown"), TRUE, FALSE)
    /\ last = Call("none", <<>>, NoError)
    /\ pre = [segments |-> <<>>, lines |-> <<>>, paths |-> <<>>]
    /\ calls = 0
    /\ disk \in Files
    /\ pool = Idle

NextLoad ==
    \/ \E a \in LoadInputs : LoadGraph(a[1], a[2])
    \/ \E a \in SaveInputs : SaveGraph(a[1], a[2])
    \/ \E a \in LinkInputs : add_edge(a[1], a[2], a[3], a[4])

SpecLoad == InitLoad /\ [][NextLoad]_vars

\* ------------------------------------------------------------ gfagraphs.py
\* The earlier parser of the repository, src/gfagraphs/gfagraphs.py: a Record
\* is built from one line and the declared dialect (GfaStyle).
\* Dict keys that are words
Word ==
    [name |-> <<"n", "a", "m", "e">>, length |-> <<"l", "e", "n", "g", "t", "h">>,
     seq |-> <<"s", "e", "q">>, start |-> <<"s", "t", "a", "r", "t">>,
     end |-> <<"e", "n", "d">>,
     orientation |-> <<"o", "r", "i", "e", "n", "t", "a", "t", "i", "o", "n">>,
     path |-> <<"p", "a", "t", "h">>, id |-> <<"i", "d">>,
     origin |-> <<"o", "r", "i", "g", "i", "n">>,
     start_offset |-> <<"s", "t", "a", "r", "t", "_", "o", "f", "f", "s", "e", "t">>,
     stop_offset |-> <<"s", "t", "o", "p", "_", "o", "f", "f", "s", "e", "t">>]
\* {**a, **b}
RECURSIVE Merge(_, _)
Merge(a, b) == IF b = <<>> THEN a ELSE Merge(Put(a, b[1].k, b[1].v), Tail(b))
\* sub('\D', '', s)
DigitsOnly(s) == SelectSeq(s, LAMBDA c : c \in DigitSet)
\* GfaStyle: the dialects by value
GfaStyle == FormatNames
\* Orientation of gfagraphs.py: '+', '-' and '?'
LegacyOrientation(c) ==
    CASE c = "+" -> <<"Orientation.FORWARD">> [] c = "-" -> <<"Orientation.REVERSE">>
      [] c = "?" -> <<"Orientation.UNKNOWN">>
IsLegacyOrientation(c) == c \in {"+", "-", "?"}
\* What a line function returns: the field map, or the exception raised
Fields(datas) == [raised |-> NoError, datas |-> datas]
Refused(exc) == [raised |-> exc, datas |-> <<>>]
\* line_datas merged with the trailing fields
WithSupplementary(line_datas, datas, length_condition) ==
    Once(supplementary_datas(datas, length_condition),
         LAMBDA sup : IF sup.raised # NoError THEN Refused(sup.raised)
                      ELSE Fields(Merge(line_datas, sup.mapping)))

gfagraphs_default(datas, gfa_style) == WithSupplementary(<<>>, datas, 0)
gfagraphs_header(datas, gfa_style) ==
    IF gfa_style = "rGFA" THEN Refused("ValueError")
    ELSE WithSupplementary(<<>>, datas, 1)
gfagraphs_segment(datas, gfa_style, ws) ==
    IF Len(datas) < 3 THEN Refused("IndexError")
    ELSE LET named == <<[k |-> Word.name, v |-> PyStr(DigitsOnly(datas[2]))],
                        [k |-> Word.length, v |-> PyInt(Len(datas[3]))]>>
             line_datas == IF ws THEN Append(named, [k |-> Word.seq, v |-> PyStr(datas[3])])
                           ELSE named
         IN WithSupplementary(line_datas, datas, 3)
gfagraphs_line(datas, gfa_style) ==
    IF Len(datas) < 5 THEN Refused("IndexError")
    ELSE WithSupplementary(
            <<[k |-> Word.start, v |-> PyStr(DigitsOnly(datas[2]))],
              [k |-> Word.end, v |-> PyStr(DigitsOnly(datas[4]))],
              [k |-> Word.orientation, v |-> PyStr(datas[3] \o <<"/">> \o datas[5])]>>,
            datas, 5)
gfagraphs_containment(datas, gfa_style) ==
    IF gfa_style = "rGFA" THEN Refused("ValueError")
    ELSE WithSupplementary(<<>>, datas, 1)
gfagraphs_path(datas, gfa_style) ==
    IF gfa_style = "rGFA" THEN Refused("ValueError")
    ELSE IF Len(datas) < 3 THEN Refused("IndexError")
    ELSE LET nodes == Split(datas[3], ",")
         IN IF \E i \in 1..Len(nodes) : nodes[i] = <<>> THEN Refused("IndexError")
            ELSE IF \E i \in 1..Len(nodes) : ~IsLegacyOrientation(nodes[i][Len(nodes[i])])
            THEN Refused("ValueError")
            ELSE WithSupplementary(
                    <<[k |-> Word.name, v |-> PyStr(datas[2])],
                      [k |-> Word.path,
                       v |-> PyList([i \in 1..Len(nodes) |->
                                <<SubSeq(nodes[i], 1, Len(nodes[i]) - 1),
                                  LegacyOrientation(nodes[i][Len(nodes[i])])>>])]>>,
                    datas, 7)
gfagraphs_walk(datas, gfa_style) ==
    IF gfa_style \in {"rGFA", "GFA1"} THEN Refused("ValueError")
    ELSE IF Len(datas) < 4 THEN Refused("IndexError")
    ELSE IF ~IsIntText(datas[3]) THEN Refused("ValueError")
    ELSE IF Len(datas) < 7 THEN Refused("IndexError")
    ELSE LET nodes == WalkNodes(datas[7])
         IN IF \E i \in 1..Len(nodes) : nodes[i] = <<>> THEN Refused("IndexError")
            ELSE IF \E i \in 1..Len(nodes) : ~IsLegacyOrientation(nodes[i][1])
            THEN Refused("ValueError")
            ELSE WithSupplementary(
                    <<[k |-> Word.id, v |-> PyStr(datas[4])],
                      [k |-> Word.origin, v |-> PyInt(TextToInt(datas[3]))],
                      [k |-> Word.name, v |-> PyStr(datas[2])],
                      [k |-> Word.start_offset, v |-> PyStr(datas[5])],
                      [k |-> Word.stop_offset, v |-> PyStr(datas[6])],
                      [k |-> Word.path,
                       v |-> PyList([i \in 1..Len(nodes) |->
                                <<PyFrom(nodes[i], 1), LegacyOrientation(nodes[i][1])>>])]>>,
                    datas, 7)
gfagraphs_jump(datas, gfa_style) ==
    IF gfa_style \in {"rGFA", "GFA1", "GFA1.1"} THEN Refused("ValueError")
    ELSE WithSupplementary(<<>>, datas, 1)

\* LineType(key): the class of the record and the function that reads the line
LineType(key) ==
    CASE key = "H" -> "Header" [] key = "S" -> "Segment" [] key = "L" -> "Line"
      [] key = "C" -> "Containment" [] key = "P" -> "Path" [] key = "W" -> "Walk"
      [] key = "J" -> "Jump" [] OTHER -> "Other"
\* Record(gfa_data_line, gfa_type, kwargs={'ws': ws}): [raised, linetype, datas]
Record(gfa_data_line, gfa_type, ws) ==
    LET linetype == LineType(gfa_data_line[1])
        Func(datas) ==
            CASE linetype = "Header" -> gfagraphs_header(datas, gfa_type)
              [] linetype = "Segment" -> gfagraphs_segment(datas, gfa_type, ws)
              [] linetype = "Line" -> gfagraphs_line(datas, gfa_type)
              [] linetype = "Containment" -> gfagraphs_containment(datas, gfa_type)
              [] linetype = "Path" -> gfagraphs_path(datas, gfa_type)
              [] linetype = "Walk" -> gfagraphs_walk(datas, gfa_type)
              [] linetype = "Jump" -> gfagraphs_jump(datas, gfa_type)
              [] OTHER -> gfagraphs_default(datas, gfa_type)
    IN IF gfa_type \notin GfaStyle
       THEN [raised |-> "ValueError", linetype |-> "none", datas |-> <<>>]
       ELSE IF gfa_data_line = <<>>
       THEN [raised |-> "IndexError", linetype |-> "none", datas |-> <<>>]
       ELSE Once(Once(Split(StripNewlines(gfa_data_line), TAB), Func),
                 LAMBDA got : [raised |-> got.raised,
                               linetype |-> IF got.raised = NoError THEN linetype ELSE "none",
                               datas |-> got.datas])

\* ------------------------------------------------------------ parsing one line
\* The lines given to the parsers
HLoose == Line(<<<<"H">>, VN(<<"1", ".", "0">>), Loose>>)
CLine == Line(<<<<"C">>, n1, <<"+">>, n2, <<"+">>, <<"0">>, <<"1", "M">>>>)
JLine == Line(<<<<"J">>, n1, <<"+">>, n2, <<"+">>, <<"1", "0">>>>)
Comment == Line(<<<<"#">>, Loose>>)
SShort == Line(<<<<"S">>, n1>>)
ParseLines ==
    {HeaderLines.GFA1, HLoose, S1, S2, STagged, SShort, L12, L12r, LTagged, P12, PTagged,
     W12, WTagged, CLine, JLine, Comment}
\* The call and what it gave: the exception raised, or the value returned
Answer(op, args, raised, value) ==
    [op |-> op, args |-> args, raised |-> raised, value |-> value]
\* A call of a pure function: the graph, if any, is left alone
Pure ==
    UNCHANGED <<alive, segments, lines, paths, headers, metadata, pre, calls, disk, pool>>

\* Record(gfa_data_line, gfa_type, {'ws': ws}) of gfagraphs.py
ParseRecord(gfa_data_line, gfa_type, ws) ==
    /\ \E r \in {Record(gfa_data_line, gfa_type, ws)} :
          last' = Answer("Record", <<gfa_data_line, gfa_type, ws>>, r.raised,
                         [linetype |-> r.linetype, datas |-> r.datas])
    /\ Pure
\* GFAParser.read_gfa_line(datas, load_sequence_in_memory, memory_mode=memory_mode)
\* on the stripped fields of a line, as Graph.__init__ calls it
ParseLine(gfa_line, load_sequence_in_memory, memory_mode) ==
    /\ \E datas \in {StrippedFields(gfa_line)} :
       \E r \in {read_gfa_line(datas, load_sequence_in_memory, memory_mode)} :
          last' = Answer("read_gfa_line",
                         <<gfa_line, load_sequence_in_memory, memory_mode>>, r.raised,
                         [name |-> r.name, line_type |-> r.line_type, datas |-> r.datas])
    /\ Pure

\* The first lines given to get_gfa_format, and the files they start
HBare == Line(<<<<"H">>>>)
HOther == Line(<<<<"H">>, <<"X", "X", ":", "i", ":", "3">>>>)
HVersion3 == Line(<<<<"H">>, VN(<<"3", ".", "0">>)>>)
HVersionInt == Line(<<<<"H">>, <<"V", "N", ":", "i", ":", "1">>>>)
HVersionJson == Line(<<<<"H">>, <<"V", "N", ":", "J", ":", "\"", "1", ".", "0", "\"">>>>)
HVersionTwice == Line(<<<<"H">>, VN(<<"1", ".", "0">>), VN(<<"1", ".", "1">>)>>)
HBadType == Line(<<<<"H">>, VN(<<"1", ".", "0">>), <<"X", "X", ":", "q", ":", "3">>>>)
HByteArray == Line(<<<<"H">>, <<"X", "X", ":", "B", ":", "3">>>>)
FirstLines ==
    {HeaderLines.GFA1, HeaderLines.GFA1_1, HeaderLines.GFA1_2, HeaderLines.GFA2, HLoose,
     HBare, HOther, HVersion3, HVersionInt, HVersionJson, HVersionTwice, HBadType,
     HByteArray, S1, P12, W12, Comment}
FormatFiles ==
    {<<first>> : first \in FirstLines}
    \cup {<<first, second>> : first \in FirstLines, second \in {S1, HeaderLines.GFA2}}
\* GFAParser.get_gfa_format(gfa_file_path) on a file with these lines
DetectFormat(gfa_file) ==
    /\ \E r \in {get_gfa_format(gfa_file)} :
          last' = Answer("get_gfa_format", <<gfa_file>>, r.raised, r.version)
    /\ Pure

\* The values given to the codec
OffsetTriple == <<PyInt(0), PyInt(2), PyStr(<<"+">>)>>
CodecValues ==
    {PyInt(0), PyInt(12), PyInt(-3),
     PyFloat(<<"1", ".", "5">>), PyFloat(<<"-", "0", ".", "0">>),
     PyFloat(<<"0", ".", "1">>),
     PyStr(<<>>), PyStr(<<"x">>), PyStr(<<"1">>), PyStr(<<"a", "\"", "b">>),
     PyBool(TRUE), PyBool(FALSE), PyNone,
     PyList(<<>>), PyList(<<PyInt(1), PyStr(<<"a">>), PyNone>>),
     PyTuple(OffsetTriple),
     PyDict(<<[k |-> PyStr(<<"P", "1">>), v |-> PyList(<<PyList(OffsetTriple)>>)]>>),
     PyDict(<<[k |-> PyStr(<<"P", "1">>), v |-> PyList(<<PyTuple(OffsetTriple)>>)]>>),
     PyDict(<<[k |-> PyInt(1), v |-> PyStr(<<"a">>)]>>),
     PySet(<<PyInt(1)>>)}
\* get_gfa_type(get_python_type(v))(set_gfa_type(get_python_type(v))(v)): the
\* type letter chosen for v, the text written for v, and what the text
\* decodes to; ValueError when get_python_type refuses v
RoundTrip(v) ==
    /\ \E letter \in {get_python_type(v)} :
          IF letter = "ValueError"
          THEN last' = Answer("round_trip", <<v>>, "ValueError",
                              [letter |-> letter, text |-> <<>>, decoded |-> PyNone])
          ELSE \E got \in {get_gfa_type(letter, set_gfa_type(letter, v))} :
                  last' = Answer("round_trip", <<v>>, got.raised,
                                 [letter |-> letter, text |-> set_gfa_type(letter, v),
                                  decoded |-> got.value])
    /\ Pure

InitParse ==
    /\ alive = FALSE
    /\ segments = <<>> /\ lines = <<>> /\ paths = <<>> /\ headers = <<>>
    /\ metadata = Metadata(FormatStr("unknown"), TRUE, FALSE)
    /\ last = Answer("none", <<>>, NoError, PyNone)
    /\ pre = [segments |-> <<>>, lines |-> <<>>, paths |-> <<>>]
    /\ calls = 0
    /\ disk = <<>>
    /\ pool = Idle

NextParse ==
    \/ \E l \in ParseLines, d \in GfaStyle, ws \in BOOLEAN : ParseRecord(l, d, ws)
    \/ \E l \in ParseLines, ws \in BOOLEAN, mm \in BOOLEAN : ParseLine(l, ws, mm)
    \/ \E f \in FormatFiles : DetectFormat(f)
    \/ \E v \in CodecValues : RoundTrip(v)

SpecParse == InitParse /\ [][NextParse]_vars

\* ------------------------------------------------------------ global offsets
p2 == <<"p", "2">>
\* A graph made by the Editor: add_node, add_edge and add_path in turn
RECURSIVE WithNodes(_, _)
WithNodes(segs, nodes) ==
    IF nodes = <<>> THEN segs
    ELSE WithNodes(AddNode(segs, TRUE, nodes[1][1], nodes[1][2]), Tail(nodes))
RECURSIVE WithEdges(_, _)
WithEdges(lns, edges) ==
    IF edges = <<>> THEN lns
    ELSE WithEdges(AddEdge(lns, edges[1][1], <<"+">>, edges[1][2], <<"+">>), Tail(edges))
RECURSIVE WithPaths(_, _)
WithPaths(g, chains) ==
    IF chains = <<>> THEN g
    ELSE WithPaths(AddPath(g, chains[1][1], chains[1][1], chains[1][2], 0, PyNone),
                   Tail(chains))
Made(nodes, edges, chains) ==
    WithPaths(Outcome(WithNodes(<<>>, nodes), WithEdges(<<>>, edges), <<>>, NoError),
              chains)
ThreeNodes == <<<<n1, <<"A", "C">>>>, <<n2, <<"G">>>>, <<n3, <<"A", "C">>>>>>
\* Backbone 1, 2; segment 3 is reached from both: edges 1-2, 1-3, 2-3
Bubble ==
    Made(ThreeNodes, <<<<n1, n2>>, <<n1, n3>>, <<n2, n3>>>>, <<<<p1, Chain12>>>>)
\* Backbone 1, 2 and backbone 1; segment 3, off the backbone, is reached from
\* 2 and loops on itself: edges 2-3, 3-3
Loop ==
    Made(ThreeNodes, <<<<n2, n3>>, <<n3, n3>>>>,
         <<<<p1, Chain12>>, <<p2, <<<<n1, FORWARD>>>>>>>>)
\* Backbone 1, with an edge to a segment that does not exist: edge 1-3
Dangling == Made(<<<<n1, <<"A", "C">>>>>>, <<<<n1, n3>>>>, <<<<p1, <<<<n1, FORWARD>>>>>>>>)
OffsetGraphs == {Bubble, Loop, Dangling}
\* <<reference, threads>>
OffsetInputs == {<<p1, 1>>, <<p1, 2>>, <<p2, 1>>, <<p1, 0>>}

InitOffsets ==
    /\ alive = TRUE
    /\ \E g \in OffsetGraphs :
          /\ segments = g.segments
          /\ lines = g.lines
          /\ paths = g.paths
    /\ headers = <<>>
    /\ metadata = Metadata(FormatStr("unknown"), TRUE, FALSE)
    /\ last = Call("Graph", <<NoFile, TRUE, FALSE>>, NoError)
    /\ pre = [segments |-> <<>>, lines |-> <<>>, paths |-> <<>>]
    /\ calls = 0
    /\ disk = <<>>
    /\ pool = Idle

NextOffsets ==
    \/ \E a \in OffsetInputs : global_offset(a[1], a[2])
    \/ \E i \in 1..2 : start_recursion(i)
    \/ \E i \in 1..2 : explore(i)
    \/ \E i \in 1..2 : end_recursion(i)
    \/ futures_collector

SpecOffsets == InitOffsets /\ [][NextOffsets]_vars

\* ------------------------------------------------------------ properties
EditorOps ==
    {"add_node", "add_edge", "add_path", "split_segments", "rename_node",
     "merge_segments", "add_dovetails", "unfold"}
\* Every waypoint of every path names a segment that is there
WaypointsExist(pths, segs) ==
    \A i \in 1..Len(pths) : \A j \in 1..Len(pths[i].v.path) :
        Has(segs, pths[i].v.path[j][1])
\* Both ends of every edge key are segments that are there
EndpointsExist(lns, segs) ==
    \A i \in 1..Len(lns) : Has(segs, lns[i].k[1]) /\ Has(segs, lns[i].k[2])
\* The sequence a segment is written with: the resident one, or the run of 'N'
Written(datas) == IF datas.hasSeq THEN datas.seq ELSE NRun(datas.length)
\* A resident sequence is as long as the recorded length
LengthMatches(datas) == datas.hasSeq => Len(datas.seq) = datas.length
Distinct(names) == \A i, j \in 1..Len(names) : names[i] = names[j] => i = j
Members(names) == {names[i] : i \in 1..Len(names)}
\* The members' sequences, one after the other in argument order
RECURSIVE MembersSequence(_, _)
MembersSequence(segs, names) ==
    IF names = <<>> THEN <<>>
    ELSE Written(Get(segs, Head(names))) \o MembersSequence(segs, Tail(names))
RECURSIVE MembersLength(_, _)
MembersLength(segs, names) ==
    IF names = <<>> THEN 0 ELSE Get(segs, Head(names)).length + MembersLength(segs, Tail(names))
\* merge_segments was called with a merge_name, on one or more distinct
\* segments that were there
MergedExisting ==
    /\ last.op = "merge_segments"
    /\ last.args[2] # None
    /\ last.args[1] # <<>>
    /\ Distinct(last.args[1])
    /\ \A n \in Members(last.args[1]) : Has(pre.segments, n)
\* A walk in which every run of the names `run` is replaced by the one name m
RECURSIVE ReplaceRuns(_, _, _)
ReplaceRuns(names, run, m) ==
    IF names = <<>> THEN <<>>
    ELSE IF Len(names) >= Len(run) /\ SubSeq(names, 1, Len(run)) = run
    THEN <<m>> \o ReplaceRuns(SubSeq(names, Len(run) + 1, Len(names)), run, m)
    ELSE <<Head(names)>> \o ReplaceRuns(Tail(names), run, m)
\* A walk in which every waypoint on s is replaced by the fragments, in order
\* and with the orientation of the waypoint
RECURSIVE SplitWalk(_, _, _)
SplitWalk(walk, s, fragments) ==
    IF walk = <<>> THEN <<>>
    ELSE (IF Head(walk)[1] = s
          THEN [i \in 1..Len(fragments) |-> <<fragments[i], Head(walk)[2]>>]
          ELSE <<Head(walk)>>) \o SplitWalk(Tail(walk), s, fragments)

\* C1: in a graph whose path waypoints all name existing segments, after any
\* Editor call returns (add_path being called, as its contract asks, with a
\* chain over existing segments) every waypoint of every path still names a
\* key of the segment collection.
C1_WaypointsExistAfterCall ==
    (/\ last.op \in EditorOps
     /\ last.raised = NoError
     /\ WaypointsExist(pre.paths, pre.segments)
     /\ last.op = "add_path" =>
            \A j \in 1..Len(last.args[2]) : Has(pre.segments, last.args[2][j][1]))
    => WaypointsExist(paths, segments)

\* C2: in a graph whose edge keys, and path waypoints, all name existing
\* segments, after any Editor call returns (add_edge being called between
\* existing segments, add_path with a chain over existing segments) both
\* ends of every edge key are keys of the segment collection.
C2_EndpointsExistAfterCall ==
    (/\ last.op \in EditorOps
     /\ last.raised = NoError
     /\ EndpointsExist(pre.lines, pre.segments)
     /\ WaypointsExist(pre.paths, pre.segments)
     /\ last.op = "add_path" =>
            \A j \in 1..Len(last.args[2]) : Has(pre.segments, last.args[2][j][1])
     /\ last.op = "add_edge" =>
            Has(pre.segments, last.args[1]) /\ Has(pre.segments, last.args[3]))
    => EndpointsExist(lines, segments)

\* C3: merge_segments(n1..nk, merge_name=m) on existing, distinct segments
\* whose resident sequences have their recorded length removes n1..nk (but
\* m, when m is one of them) and leaves a segment m whose sequence is the
\* members' sequences in argument order, a run of 'N' of the recorded length
\* standing for a member without resident sequence, and whose length is the
\* sum of the members' lengths.  The sequence of m is resident when the graph
\* keeps sequences.
C3_MergeConcatenates ==
    (/\ MergedExisting
     /\ \A n \in Members(last.args[1]) : LengthMatches(Get(pre.segments, n)))
    => /\ \A n \in Members(last.args[1]) : n # last.args[2] => ~Has(segments, n)
       /\ Has(segments, last.args[2])
       /\ Get(segments, last.args[2]).length = MembersLength(pre.segments, last.args[1])
       /\ Get(segments, last.args[2]).hasSeq = metadata.with_sequence
       /\ Get(segments, last.args[2]).hasSeq =>
              Get(segments, last.args[2]).seq = MembersSequence(pre.segments, last.args[1])

\* C3 happens: segments 1 (resident sequence AC) and 2 (no resident sequence,
\* length 1) were merged into 12, which holds ACN.
C3_MergedWithPlaceholder ==
    /\ MergedExisting
    /\ last.args = <<<<n1, n2>>, n12>>
    /\ Get(pre.segments, n1).hasSeq
    /\ ~Get(pre.segments, n2).hasSeq
    /\ Has(segments, n12)
    /\ Get(segments, n12).seq = <<"A", "C", "N">>

\* C4: after merge_segments(n1..nk, merge_name=m) has returned, in a graph
\* whose edges joined existing segments, every edge
\* that entered n1 from outside is keyed (source, m) and every edge that left
\* nk to the outside is keyed (m, sink), each with its orientation set, and no
\* edge between two merged members remains.
C4_MergeRewiresEdges ==
    (MergedExisting /\ last.raised = NoError /\ EndpointsExist(pre.lines, pre.segments))
    => LET run == last.args[1]
           m == last.args[2]
           M == Members(run)
       IN /\ \A i \in 1..Len(pre.lines) :
                 (pre.lines[i].k[2] = run[1] /\ pre.lines[i].k[1] \notin M)
                 => /\ Has(lines, <<pre.lines[i].k[1], m>>)
                    /\ pre.lines[i].v.orientation
                           \subseteq Get(lines, <<pre.lines[i].k[1], m>>).orientation
          /\ \A i \in 1..Len(pre.lines) :
                 (pre.lines[i].k[1] = run[Len(run)] /\ pre.lines[i].k[2] \notin M)
                 => /\ Has(lines, <<m, pre.lines[i].k[2]>>)
                    /\ pre.lines[i].v.orientation
                           \subseteq Get(lines, <<m, pre.lines[i].k[2]>>).orientation
          /\ \A i \in 1..Len(lines) :
                 ~(/\ lines[i].k[1] \in M /\ lines[i].k[2] \in M
                   /\ (lines[i].k[1] # m \/ lines[i].k[2] # m))

\* C5: after merge_segments(n1..nk, merge_name=m) has returned, in every path
\* each occurrence of the run n1..nk is one waypoint on m, also when the run
\* occurs several times, and the other waypoints keep their place.
C5_MergeRewritesPaths ==
    (MergedExisting /\ last.raised = NoError)
    => /\ Len(paths) = Len(pre.paths)
       /\ \A i \in 1..Len(paths) :
              /\ paths[i].k = pre.paths[i].k
              /\ \A j \in 1..Len(paths[i].v.path) : Len(paths[i].v.path[j]) = 2
              /\ PathNodeNames(paths[i].v.path)
                     = ReplaceRuns(PathNodeNames(pre.paths[i].v.path),
                                   last.args[1], last.args[2])

\* C6: split_segments(s, [f1..fk], [(a1,b1)..(ak,bk)]) on an existing
\* segment s, with as many names as ranges, returns normally and leaves a
\* segment fi holding sequence[ai:bi] for each range, an edge (fi, fi+1)
\* between consecutive fragments, the former in-edges of s on f1 and its
\* former out-edges on fk, and in every path the run (f1,o)..(fk,o) in place
\* of each waypoint (s, o).
C6_SplitMakesFragments ==
    (/\ last.op = "split_segments"
     /\ Has(pre.segments, last.args[1])
     /\ Len(last.args[2]) = Len(last.args[3])
     /\ Len(last.args[2]) >= 1)
    => LET s == last.args[1]
           f == last.args[2]
           r == last.args[3]
           sequence == Written(Get(pre.segments, s))
       IN /\ last.raised = NoError
          /\ \A i \in 1..Len(f) :
                 /\ Has(segments, f[i])
                 /\ Written(Get(segments, f[i])) = PySlice(sequence, r[i][1], r[i][2])
          /\ \A i \in 1..(Len(f) - 1) : Has(lines, <<f[i], f[i + 1]>>)
          /\ \A i \in 1..Len(pre.lines) :
                 /\ (pre.lines[i].k[2] = s /\ pre.lines[i].k[1] # s)
                        => Has(lines, <<pre.lines[i].k[1], f[1]>>)
                 /\ (pre.lines[i].k[1] = s /\ pre.lines[i].k[2] # s)
                        => Has(lines, <<f[Len(f)], pre.lines[i].k[2]>>)
          /\ Len(paths) = Len(pre.paths)
          /\ \A i \in 1..Len(paths) :
                 paths[i].v.path = SplitWalk(pre.paths[i].v.path, s, f)

\* C7: for a segment s of length n and 0 < k < n, split_segments(s, [a, b],
\* [(0,k), (k,n)]), a and b being ids no other segment has, followed by
\* merge_segments(a, b, merge_name=s) leaves a
\* segment s with the sequence (without resident sequence: the length) that
\* s had before the split.
C7_SplitThenMergeRestores ==
    [][(/\ last.op = "split_segments"
        /\ Has(pre.segments, last.args[1])
        /\ Len(last.args[2]) = 2
        /\ last.args[2][1] # last.args[2][2]
        /\ \A n \in Members(last.args[2]) : n = last.args[1] \/ ~Has(pre.segments, n)
        /\ \E k \in 1..(Get(pre.segments, last.args[1]).length - 1) :
               last.args[3] = <<<<0, k>>, <<k, Get(pre.segments, last.args[1]).length>>>>
        /\ last'.op = "merge_segments"
        /\ last'.args = <<last.args[2], last.args[1]>>)
       => /\ Has(segments', last.args[1])
          /\ IF Get(pre.segments, last.args[1]).hasSeq
             THEN /\ Get(segments', last.args[1]).hasSeq
                  /\ Get(segments', last.args[1]).seq = Get(pre.segments, last.args[1]).seq
             ELSE Get(segments', last.args[1]).length
                      = Get(pre.segments, last.args[1]).length]_vars

\* C8: rename_node(old, new), old an existing segment and new an unused id,
\* in a graph whose edges join existing segments, returns with old no longer a segment key and new holding old's data, with
\* new in the place of old in every edge key (same orientation set) and in
\* every waypoint (same orientation), and with no segment key, edge key or
\* waypoint that mentions old.
C8_RenameRekeys ==
    (/\ last.op = "rename_node"
     /\ Has(pre.segments, last.args[1])
     /\ ~Has(pre.segments, last.args[2])
     /\ EndpointsExist(pre.lines, pre.segments))
    => LET old == last.args[1]
           new == last.args[2]
           Renamed(n) == IF n = old THEN new ELSE n
       IN /\ last.raised = NoError
          /\ ~Has(segments, old)
          /\ Has(segments, new)
          /\ Get(segments, new) = Get(pre.segments, old)
          /\ \A i \in 1..Len(pre.lines) :
                 /\ Has(lines, <<Renamed(pre.lines[i].k[1]), Renamed(pre.lines[i].k[2])>>)
                 /\ Get(lines, <<Renamed(pre.lines[i].k[1]), Renamed(pre.lines[i].k[2])>>).orientation
                        = pre.lines[i].v.orientation
          /\ \A i \in 1..Len(lines) : lines[i].k[1] # old /\ lines[i].k[2] # old
          /\ Len(paths) = Len(pre.paths)
          /\ \A i \in 1..Len(paths) :
                 paths[i].v.path =
                     [j \in 1..Len(pre.paths[i].v.path) |->
                         <<Renamed(pre.paths[i].v.path[j][1]), pre.paths[i].v.path[j][2]>>]

\* The L-lines of a file, as (source, sink) keys and orientation pairs
LinkLinesOf(gfa_file) ==
    {i \in 1..Len(gfa_file) : StrippedFields(gfa_file[i])[1] = <<"L">>}
LinkKey(gfa_line) == <<StrippedFields(gfa_line)[2], StrippedFields(gfa_line)[4]>>
LinkPair(gfa_line) ==
    <<Orientation(StrippedFields(gfa_line)[3]), Orientation(StrippedFields(gfa_line)[5])>>
\* Two L-lines of the file have the same key
RepeatsLinkKey(gfa_file) ==
    \E i, j \in LinkLinesOf(gfa_file) : i # j /\ LinkKey(gfa_file[i]) = LinkKey(gfa_file[j])

\* C9: a link on a (source, sink) key that is already there, made by add_edge
\* or by a repeated L-line of the file being loaded, adds its orientation pair
\* to the set of that edge, and changes no other edge, no segment and no path.
C9_RepeatedKeyUnions ==
    /\ (last.op = "add_edge" /\ last.raised = NoError
        /\ Has(pre.lines, <<last.args[1], last.args[3]>>))
       => LET key == <<last.args[1], last.args[3]>>
              pair == <<Orientation(OriNormal(last.args[2])),
                        Orientation(OriNormal(last.args[4]))>>
          IN /\ Get(lines, key).orientation = Get(pre.lines, key).orientation \cup {pair}
             /\ Len(lines) = Len(pre.lines)
             /\ \A i \in 1..Len(lines) :
                    lines[i].k # key => lines[i] = pre.lines[i]
             /\ segments = pre.segments
             /\ paths = pre.paths
    /\ (last.op = "Graph" /\ RepeatsLinkKey(last.args[1])
        /\ ~last.args[3]
        /\ \A i \in 1..Len(last.args[1]) :
               StrippedFields(last.args[1][i])[1] \in {<<"S">>, <<"L">>})
       => /\ last.raised = NoError
          /\ \A i \in LinkLinesOf(last.args[1]) :
                 /\ Has(lines, LinkKey(last.args[1][i]))
                 /\ LinkPair(last.args[1][i])
                        \in Get(lines, LinkKey(last.args[1][i])).orientation

\* The segment ids with their lengths, and the edges as (source, sink,
\* orientation set)
SegmentLengths(segs) == {<<segs[i].k, segs[i].v.length>> : i \in 1..Len(segs)}
EdgeTuples(lns) == {<<lns[i].k[1], lns[i].k[2], lns[i].v.orientation>> : i \in 1..Len(lns)}
\* The file is one of the five dialect files
IsDialectFile(gfa_file) == \E d \in DOMAIN DialectFiles : gfa_file = DialectFiles[d]

\* C10: a file of any dialect (rGFA, GFA1, GFA1.1, GFA1.2, GFA2) loads into a
\* graph G, and saving G and loading the saved file gives a graph with the
\* segment ids and lengths and the (source, sink, orientation set) edges of G.
C10_RoundTrip ==
    [][/\ (~alive /\ IsDialectFile(disk) /\ last'.op = "Graph" /\ ~last'.args[3])
          => last'.raised = NoError
       /\ (alive /\ calls = 0 /\ last.op = "save_graph" /\ last.raised = NoError
           /\ last'.op = "Graph")
          => /\ last'.raised = NoError
             /\ SegmentLengths(segments') = SegmentLengths(segments)
             /\ EdgeTuples(lines') = EdgeTuples(lines)]_vars

\* The walk of a path as a P-line writes it: 1+,2-
WalkText(walk) ==
    Join([i \in 1..Len(walk) |-> walk[i][1] \o OriValue(walk[i][2])], <<",">>)
\* The file holds a P-line with this name and this walk
HasPLine(gfa_file, name, walk) ==
    \E j \in 1..Len(gfa_file) :
        LET f == StrippedFields(gfa_file[j])
        IN Len(f) >= 3 /\ f[1] = <<"P">> /\ f[2] = name /\ f[3] = WalkText(walk)
\* Scenario 1 loads to segments 1 and 2 of length 3, the edge (1, 2) with
\* {(+, +)} and the path p1 = [(1, +), (2, +)]
LoadsScenario1 ==
    (last.op = "Graph" /\ last.args[1] = Scenario1 /\ ~last.args[3])
    => /\ last.raised = NoError
       /\ SegmentLengths(segments) = {<<n1, 3>>, <<n2, 3>>}
       /\ EdgeTuples(lines) = {<<n1, n2, {<<FORWARD, FORWARD>>}>>}
       /\ Has(paths, p1)
       /\ Get(paths, p1).path = Chain12
\* Saving forced to GFA1 writes, for each path that was read from a P-line
\* (it has no origin), a P-line with the name and the walk it was read with
ForcedGFA1KeepsPLines ==
    (last.op = "save_graph" /\ last.args[2] = GFAFormat("GFA1") /\ last.raised = NoError)
    => \A i \in 1..Len(paths) :
           paths[i].v.origin = PyNone
           => HasPLine(disk, paths[i].v.name, paths[i].v.path)

\* C11: loading the GFA1 file of scenario 1 (header 1.0, segments 1=AAA and
\* 2=CCC, link 1+ to 2+, P-line p1 = 1+,2+) gives segments 1 and 2 of length
\* 3, exactly one edge (1, 2) with orientation set {(+, +)} and a path
\* retrievable as p1 with walk [(1, +), (2, +)]; and saving with the dialect
\* forced to GFA1 writes, for every path loaded from a P-line, a P-line with
\* the same name and the same walk.
C11_Scenario1LoadsAndResaves == LoadsScenario1 /\ ForcedGFA1KeepsPLines

\* The line kinds a dialect forbids, by the first character of the line
IllegalKinds(dialect) ==
    CASE dialect = "rGFA" -> {"H", "P", "C", "W", "J"}
      [] dialect = "GFA1" -> {"W", "J"}
      [] dialect = "GFA1.1" -> {"J"}
      [] OTHER -> {}
\* The dialect a file declares: what get_gfa_format reads from its first line
DeclaredDialect(gfa_file) == get_gfa_format(gfa_file).version[2]
HasIllegalLine(gfa_file) ==
    \E i \in 1..Len(gfa_file) : gfa_file[i][1] \in IllegalKinds(DeclaredDialect(gfa_file))
\* Loading a file that holds a line of a kind its dialect forbids raises, and
\* nothing of the file is stored
IllegalLineRefused ==
    (last.op = "Graph" /\ ~last.args[3] /\ last.args[1] # <<>>
     /\ HasIllegalLine(last.args[1]))
    => last.raised # NoError /\ Snapshot = pre
\* The P-line that rGFA forbids is read under GFA1
PLineReadUnderGFA1 ==
    (last.op = "Graph" /\ ~last.args[3] /\ last.args[1] = <<HeaderLines.GFA1, P12>>)
    => last.raised = NoError /\ Len(paths) = 1
\* The same, for Record of gfagraphs.py, which is given the dialect: a kind the
\* dialect forbids raises ValueError and no record is made, the P-line is
\* read under GFA1, and every line is read under GFA2
RecordRespectsLegality ==
    last.op = "Record"
    => /\ last.args[1][1] \in IllegalKinds(last.args[2])
          => last.raised = "ValueError" /\ last.value.linetype = "none"
       /\ (last.args[1] \in {P12, PTagged} /\ last.args[2] = "GFA1")
          => last.raised = NoError /\ last.value.linetype = "Path"
       /\ (last.args[2] = "GFA2" /\ last.args[1] # SShort) => last.raised = NoError

\* C12: parsing a line whose kind is illegal for the declared dialect raises
\* an error and yields no record (header, path, containment, walk and jump
\* lines under rGFA; walk and jump lines under GFA1; jump lines under GFA1.1),
\* while the P-line rejected under rGFA parses under GFA1.
C12_IllegalKindRejected == IllegalLineRefused /\ PLineReadUnderGFA1

\* The trailing fields of a header line that read as tags, what each decodes
\* to, and those named VN
HeaderTags(first) == SelectSeq(Tail(Split(StripNewlines(first), TAB)), MatchesTag)
TagDecodes(field) == get_gfa_type(field[4], PyFrom(field, 5))
VersionTags(first) ==
    SelectSeq(HeaderTags(first), LAMBDA f : PySlice(f, 0, 2) = <<"V", "N">>)
LastVersionTag(first) == VersionTags(first)[Len(VersionTags(first))]
\* The dialect of a version text
DialectOf(version) ==
    CASE version = <<"1", ".", "0">> -> "GFA1" [] version = <<"1", ".", "1">> -> "GFA1.1"
      [] version = <<"1", ".", "2">> -> "GFA1.2" [] version = <<"2", ".", "0">> -> "GFA2"
      [] OTHER -> "unknown"
Detected == last.op = "get_gfa_format" /\ last.args[1] # <<>>

\* C13, as the code has it: get_gfa_format classifies a file from its first
\* line only.  A first line that does not start with H gives rGFA.  For a
\* header, a trailing tag that cannot be decoded raises; else a header
\* without a VN tag gives rGFA; else the value the last VN tag decodes to
\* gives GFA1, GFA1.1, GFA1.2 or GFA2 when it is the string 1.0, 1.1, 1.2 or
\* 2.0, and 'unknown' when it is anything else.
C13_FormatFromFirstLine ==
    Detected
    => LET first == last.args[1][1]
       IN IF first[1] # "H" THEN last.raised = NoError /\ last.value = FormatStr("rGFA")
          ELSE IF \E i \in 1..Len(HeaderTags(first)) :
                      TagDecodes(HeaderTags(first)[i]).raised # NoError
          THEN last.raised \in {"ValueError", "NotImplementedError", "JSONDecodeError"}
          ELSE IF VersionTags(first) = <<>>
          THEN last.raised = NoError /\ last.value = FormatStr("rGFA")
          ELSE LET vn == TagDecodes(LastVersionTag(first)).value
               IN /\ last.raised = NoError
                  /\ last.value = FormatStr(IF vn.t = "str" THEN DialectOf(vn.s)
                                            ELSE "unknown")
\* A header without a VN tag was classified, as rGFA
C13_HeaderWithoutVersion ==
    /\ Detected
    /\ last.args[1][1][1] = "H" /\ VersionTags(last.args[1][1]) = <<>>
    /\ Len(last.args[1]) = 2
    /\ last.raised = NoError /\ last.value = FormatStr("rGFA")
\* C13, as stated: a first line that is not a header gives rGFA; a header
\* whose version tag is 1.0, 1.1, 1.2 or 2.0 gives GFA1, GFA1.1, GFA1.2 or
\* GFA2; every other header line gives 'unknown'.
C13_OtherHeadersUnknown ==
    Detected
    => LET first == last.args[1][1]
       IN /\ last.raised = NoError
          /\ last.value =
                FormatStr(IF first[1] # "H" THEN "rGFA"
                          ELSE IF VersionTags(first) = <<>> THEN "unknown"
                          ELSE DialectOf(PyFrom(LastVersionTag(first), 5)))

\* The lines of a file of the given kinds, in the order of the file
LinesOfKind(gfa_file, kinds) == SelectSeq(gfa_file, LAMBDA l : l[1] \in kinds)
\* The call was save_graph with this forced dialect on a graph whose paths
\* hold to invariant 2 of the data model (every waypoint is a segment)
ForcedSave(names) ==
    /\ last.op = "save_graph"
    /\ last.args[2] \in {GFAFormat(n) : n \in names}
    /\ WaypointsExist(paths, segments)
\* The haplotype field of the W-line of the i-th path: its origin when one was
\* declared, else the number of paths written before it
HaplotypeField(i) ==
    IF paths[i].v.origin \notin {PyNone, PyStr(<<>>), PyInt(0)}
    THEN PyRepr(paths[i].v.origin) ELSE IntRepr(i - 1)

UntaggedValues(tags) ==
    LET args == SelectSeq(tags, LAMBDA e : IsArg(e.k))
    IN [i \in 1..Len(args) |-> PyRepr(args[i].v)]
\* The fields of a written line after its first n fields
OptionalFields(gfa_line, n) == PyFrom(StrippedFields(gfa_line), n)
\* The number of mandatory fields of a written line, by its kind
Mandatory(gfa_line) ==
    CASE gfa_line[1] = "S" -> 3 [] gfa_line[1] = "L" -> 6
      [] gfa_line[1] = "P" -> 3 [] gfa_line[1] = "W" -> 7 [] OTHER -> 1

\* C15: a save in minimal mode writes, on every header, segment, link and
\* path line, no optional tag, and writes verbatim the values of the object
\* that failed the tag grammar when they were read (stored under ARG keys).
C15_MinimalKeepsOnlyUntagged ==
    (last.op = "save_graph" /\ last.args[1] /\ last.raised = NoError)
    => /\ Len(LinesOfKind(disk, {"S"})) = Len(segments)
       /\ \A i \in 1..Len(segments) :
              OptionalFields(LinesOfKind(disk, {"S"})[i], 3)
                  = UntaggedValues(segments[i].v.tags)
       /\ \A i \in 1..Len(LinesOfKind(disk, {"L"})) :
              \E j \in 1..Len(lines) :
                  OptionalFields(LinesOfKind(disk, {"L"})[i], 6)
                      = UntaggedValues(lines[j].v.tags)
       /\ \A i \in 1..Len(LinesOfKind(disk, {"P", "W"})) :
              OptionalFields(LinesOfKind(disk, {"P", "W"})[i],
                             Mandatory(LinesOfKind(disk, {"P", "W"})[i]))
                  = UntaggedValues(paths[i].v.tags)
       /\ Len(LinesOfKind(disk, {"H"})) <= Len(headers)
       /\ \A i \in 1..Len(LinesOfKind(disk, {"H"})) :
              OptionalFields(LinesOfKind(disk, {"H"})[i], 1)
                  = UntaggedValues(headers[i])

\* C16: once sequence_offsets has run (it returned, and metadata holds PO), a
\* call of sequence_offsets with recalculate unset returns and leaves the
\* per-path offset map of every segment, and the segments altogether, as
\* they were.
C16_SecondOffsetsCallIdle ==
    [][(metadata.PO /\ last'.op = "sequence_offsets" /\ calls' = calls + 1
        /\ ~last'.args[1])
       => /\ last'.raised = NoError
          /\ segments' = segments
          /\ \A i \in 1..Len(segments) :
                 OffsetsOf(segments'[i].v) = OffsetsOf(segments[i].v)]_vars
\* A second call with recalculate unset returned on a graph whose segments
\* hold offsets, and the segments are as they were before the call
C16_SecondCallMade ==
    /\ last.op = "sequence_offsets" /\ ~last.args[1] /\ last.raised = NoError
    /\ metadata.PO
    /\ segments = pre.segments
    /\ \E i \in 1..Len(segments) : OffsetsOf(segments[i].v) # <<>>

\* The graph was loaded in low-memory mode: the generator of free names is
\* the word 'unknown', and no sequence was read
LowMemory == metadata.next_node_name = 0
\* The sequences are not resident: retention was off at load, or the load was
\* in low-memory mode
NotResident == ~metadata.with_sequence \/ LowMemory

\* C17: on a graph whose sequences are not resident (loaded with
\* with_sequence off, or in low-memory mode), reconstruct_sequences and
\* unfold raise the state error (RuntimeError, whose message names the load
\* mode; unfold on a graph without paths raises NotImplementedError before
\* it looks at the sequences, which is counted as failing fast too) and leave
\* segments, edges and paths as they were.
C17_NotResidentFailsFast ==
    (last.op \in {"reconstruct_sequences", "unfold"} /\ NotResident)
    => /\ last.raised \in {"RuntimeError", "NotImplementedError"}
       /\ last.raised = "NotImplementedError" => last.op = "unfold" /\ paths = <<>>
       /\ Snapshot = pre

\* C18: split_segments on a segment that exists, with a list of names and a
\* list of ranges of different lengths, raises ValueError and leaves the
\* segments, the edges and the paths exactly as they were before the call.
C18_LengthMismatchRefused ==
    (last.op = "split_segments" /\ Has(pre.segments, last.args[1])
     /\ Len(last.args[2]) # Len(last.args[3]))
    => last.raised = "ValueError" /\ Snapshot = pre
\* split_segments was called on an existing segment of a graph with an edge
\* and a path, with one name and two ranges
C18_OneNameTwoRanges ==
    /\ last.op = "split_segments" /\ Has(pre.segments, last.args[1])
    /\ Len(last.args[2]) = 1 /\ Len(last.args[3]) = 2
    /\ last.raised = "ValueError"
    /\ pre.lines # <<>> /\ pre.paths # <<>>

\* The values JSON writes and reads back as they are: no bool outside a
\* structure, no tuple, no dict key that is not a string
RECURSIVE Plain(_)
Plain(v) ==
    CASE v.t \in {"list"} -> \A i \in 1..Len(v.s) : Plain(v.s[i])
      [] v.t = "dict" -> \A i \in 1..Len(v.s) : v.s[i].k.t = "str" /\ Plain(v.s[i].v)
      [] v.t \in {"tuple", "set"} -> FALSE
      [] OTHER -> TRUE
\* The round trip gives back an int, a float, a string, None and a structure
\* of lists and string-keyed dicts of these
PlainValuesRoundTrip ==
    (last.op = "round_trip" /\ last.args[1].t # "bool" /\ Plain(last.args[1]))
    => last.raised = NoError /\ last.value.decoded = last.args[1]

\* C19: for every value v the encoder accepts (get_python_type gives a type
\* letter for it: an integer, a float, a string, a JSON-serializable
\* structure), decoding the text written for v under that letter returns v.
C19_CodecRoundTrip ==
    (last.op = "round_trip" /\ last.value.letter # "ValueError")
    => last.raised = NoError /\ last.value.decoded = last.args[1]

\* The number of mandatory fields of a line read, by its kind: S name seq,
\* L from ori to ori overlap, P name walk overlaps, W sample hap seq start
\* end walk, H
MandatoryFields(kind) ==
    CASE kind = <<"S">> -> 3 [] kind = <<"L">> -> 6 [] kind = <<"P">> -> 4
      [] kind = <<"W">> -> 7 [] kind = <<"H">> -> 1
\* The field map read_gfa_line returned: the optional entries of the dict
FieldMap(kind, datas) == IF kind = <<"H">> THEN datas ELSE datas.tags
\* The field is in the map: decoded under its two letters when it has the
\* form XX:T:value, else verbatim under an ARG key
FieldKept(mapping, field) ==
    IF MatchesTag(field)
    THEN /\ Has(mapping, PySlice(field, 0, 2))
         /\ Get(mapping, PySlice(field, 0, 2)) = get_gfa_type(field[4], PyFrom(field, 5)).value
    ELSE \E i \in 1..Len(mapping) : IsArg(mapping[i].k) /\ mapping[i].v = PyStr(field)

\* read_gfa_line was called on a line of one of the five kinds that has its
\* mandatory fields
ReadFullLine ==
    /\ last.op = "read_gfa_line"
    /\ StrippedFields(last.args[1])[1] \in {<<"S">>, <<"L">>, <<"P">>, <<"W">>, <<"H">>}
    /\ Len(StrippedFields(last.args[1])) >= MandatoryFields(StrippedFields(last.args[1])[1])
\* The call returned a record of the kind of the line whose field map holds
\* every trailing field of the line
AllTrailingKept ==
    LET fields == StrippedFields(last.args[1])
    IN /\ last.raised = NoError
       /\ last.value.line_type = fields[1]
       /\ \A i \in (MandatoryFields(fields[1]) + 1)..Len(fields) :
              FieldKept(FieldMap(fields[1], last.value.datas), fields[i])
\* What does hold: the trailing fields are kept for a walk and a header, for
\* a segment when memory_mode is set and for a link when it is not
TrailingKeptWhereRead ==
    (ReadFullLine
     /\ LET kind == StrippedFields(last.args[1])[1]
        IN \/ kind \in {<<"W">>, <<"H">>}
           \/ kind = <<"S">> /\ last.args[3]
           \/ kind = <<"L">> /\ ~last.args[3])
    => AllTrailingKept

\* C20: read_gfa_line on a segment, link, path, walk or header line that has
\* its mandatory fields returns a field map that holds every trailing field
\* of the line: decoded under key XX for a field XX:T:value, verbatim under a
\* positional key for any other field.
C20_TrailingFieldsKept == ReadFullLine => AllTrailingKept

\* Every name of a series is a segment of the graph before the call
AllThere(names) == \A n \in Members(names) : Has(pre.segments, n)
\* C21: merge_segments(n1, ..., nk) called without merge_name on existing,
\* distinct segments, once it has returned, leaves the merged segment stored
\* under the id n1, the first of the series.
C21_MergesIntoFirst ==
    (/\ last.op = "merge_segments" /\ last.raised = NoError
     /\ last.args[2] = None
     /\ last.args[1] # <<>> /\ Distinct(last.args[1]) /\ AllThere(last.args[1]))
    => Has(segments, last.args[1][1])

\* The edits that change the topology of the graph
TopologyEdits == {"split_segments", "merge_segments", "rename_node", "add_dovetails", "unfold"}
\* C22: once sequence_offsets has computed the offsets (metadata['PO'] is
\* set), a topology-changing edit that returns and changes the segments, the
\* edges or the paths unsets the flag, so that the next sequence_offsets()
\* call without recalculate computes the offsets again.
C22_EditInvalidatesOffsets ==
    [][(/\ metadata.PO
        /\ calls' = calls + 1
        /\ last'.op \in TopologyEdits /\ last'.raised = NoError
        /\ <<segments', lines', paths'>> # <<segments, lines, paths>>)
       => ~metadata'.PO]_vars

\* global_offset has returned, after an earlier call on the same graph with
\* the same reference had returned and with the sets of successors iterated
\* in the same orders
OffsetsComputedTwice ==
    /\ pool.state = "idle"
    /\ last.op = "global_offset" /\ last.raised = NoError
    /\ pool.previous.valid
    /\ pool.previous.successors = pool.successors
\* With one worker the explorations run one after the other, in the order of
\* the backbone, and two calls leave the same offsets
OneWorkerRepeats ==
    (OffsetsComputedTwice /\ pool.threads = 1 /\ pool.previous.threads = 1)
    => pool.GO = pool.previous.GO
\* C23: the global-offset pairs left by global_offset(reference, threads) are
\* the same for every order and interleaving of the explorations: two calls
\* on the same graph with the same reference, whatever their numbers of
\* threads, leave the same pair on every segment.
C23_OffsetsWhateverTheOrder == OffsetsComputedTwice => pool.GO = pool.previous.GO

\* C24: an exploration of global_offset stops at a segment it has already
\* visited and at the segments of the backbone, so that it never enters the
\* same segment twice (and so ends on a graph with a cycle off the backbone).
C24_NoSegmentEnteredTwice ==
    \A i \in 1..Len(pool.tasks) : Distinct(pool.tasks[i].entered)

\* global_offset has returned normally
OffsetsReturned ==
    pool.state = "idle" /\ last.op = "global_offset" /\ last.raised = NoError
\* The thread names of the explorations of the last call
OwnThreads == {pool.tasks[j].thread_name : j \in 1..Len(pool.tasks)}
\* C25: global_offset returns, or raises, only after every exploration
\* submitted to the pool has ended, and when it returns normally every
\* exploration has finished and no visited marker of the explorations of
\* that call remains on any segment.
C25_ReturnsAfterEveryExploration ==
    /\ (pool.state = "idle" /\ last.op = "global_offset")
          => \A j \in 1..Len(pool.tasks) : pool.tasks[j].status \in {"finished", "failed"}
    /\ OffsetsReturned
          => /\ \A j \in 1..Len(pool.tasks) : pool.tasks[j].status = "finished"
             /\ \A m \in pool.marks : m[2] \notin OwnThreads
\* C25 happens: a call with two workers has returned after its two
\* explorations ran at the same time.
C25_TwoWorkersReturned ==
    /\ OffsetsReturned
    /\ pool.threads = 2 /\ Len(pool.tasks) = 2
    /\ pool.overlapped
\* C25 as it was stated: when global_offset returns normally no visited
\* marker at all remains on any segment.
C25_NoMarkerRemains == OffsetsReturned => pool.marks = {}

\* The number of the visit that waypoint i of a walk makes to its segment
VisitNumber(walk, i) == Cardinality({j \in 1..i : walk[j][1] = walk[i][1]})
\* The segments that stand, after the call, for the repeat visits of s
DuplicatesOf(s) ==
    {paths[p].v.path[i][1] :
        <<p, i>> \in {x \in (1..Len(pre.paths)) \X (1..4) :
                        /\ x[2] <= Len(pre.paths[x[1]].v.path)
                        /\ pre.paths[x[1]].v.path[x[2]][1] = s
                        /\ VisitNumber(pre.paths[x[1]].v.path, x[2]) >= 2}}
\* The largest number of visits a path makes to s
MostVisits(s) ==
    SetMax({0} \cup {VisitNumber(pre.paths[p].v.path, i) :
                        <<p, i>> \in {x \in (1..Len(pre.paths)) \X (1..4) :
                                        /\ x[2] <= Len(pre.paths[x[1]].v.path)
                                        /\ pre.paths[x[1]].v.path[x[2]][1] = s}})
\* unfold has returned on a graph with paths of at most four waypoints over
\* existing segments with resident sequences
Unfolded ==
    /\ last.op = "unfold" /\ last.raised = NoError
    /\ Len(paths) = Len(pre.paths)
    /\ WaypointsExist(pre.paths, pre.segments)
    /\ \A p \in 1..Len(pre.paths) :
          Len(pre.paths[p].v.path) <= 4 /\ Len(paths[p].v.path) = Len(pre.paths[p].v.path)
    /\ \A n \in 1..Len(pre.segments) : pre.segments[n].v.hasSeq
\* C26: after unfold() on a graph with paths and resident sequences, in every
\* path the first visit of a segment s is left alone and the k-th visit
\* (k >= 2) is repointed to a new segment with the sequence of s, which is
\* the same segment for the k-th visit of s in every path; the segments
\* created for s number the largest visit count of s over the paths minus one.
C26_UnfoldSharesDuplicates ==
    Unfolded =>
       /\ \A p \in 1..Len(pre.paths) : \A i \in 1..Len(pre.paths[p].v.path) :
             IF VisitNumber(pre.paths[p].v.path, i) = 1
             THEN paths[p].v.path[i][1] = pre.paths[p].v.path[i][1]
             ELSE /\ ~Has(pre.segments, paths[p].v.path[i][1])
                  /\ Has(segments, paths[p].v.path[i][1])
                  /\ Get(segments, paths[p].v.path[i][1]).seq
                        = Get(pre.segments, pre.paths[p].v.path[i][1]).seq
                  /\ \A q \in 1..Len(pre.paths) : \A j \in 1..Len(pre.paths[q].v.path) :
                        (/\ pre.paths[q].v.path[j][1] = pre.paths[p].v.path[i][1]
                         /\ VisitNumber(pre.paths[q].v.path, j)
                               = VisitNumber(pre.paths[p].v.path, i))
                        => paths[q].v.path[j][1] = paths[p].v.path[i][1]
       /\ \A n \in 1..Len(pre.segments) :
             MostVisits(pre.segments[n].k) >= 1
             => Cardinality(DuplicatesOf(pre.segments[n].k)) = MostVisits(pre.segments[n].k) - 1

\* The start offset a path declares; a path read from a P-line declares none
DeclaredStart(path_datas) ==
    IF path_datas.start_offset.t = "int" THEN path_datas.start_offset.i ELSE 0
\* sequence_offsets computes, and returns, on a graph whose segments hold no
\* offsets yet
FirstOffsetsStep ==
    /\ last'.op = "sequence_offsets" /\ calls' = calls + 1 /\ last'.raised = NoError
    /\ ~metadata.PO
    /\ \A n \in 1..Len(segments) : ~Has(segments[n].v.tags, POKey)
\* After the step every segment holds, under the key of each path, one triple
\* per visit the path makes to it, in walk order, the walk being measured
\* from the given start
TriplesFrom(start(_)) ==
    \A p \in 1..Len(paths) :
       LET walk == paths[p].v.path
           key == NameValue(paths[p].k)
       IN \A i \in 1..Len(walk) :
             /\ Has(segments', walk[i][1])
             /\ Has(OffsetsOf(Get(segments', walk[i][1])), key)
             /\ Len(Get(OffsetsOf(Get(segments', walk[i][1])), key).s)
                   = Cardinality({j \in 1..Len(walk) : walk[j][1] = walk[i][1]})
             /\ Get(OffsetsOf(Get(segments', walk[i][1])), key).s[VisitNumber(walk, i)]
                   = OffsetEntry(start(paths[p].v) + SumLengths(segments, SubSeq(walk, 1, i - 1)),
                                 Get(segments, walk[i][1]).length, walk[i][2])
StartsAtZero(path_datas) == 0
\* Supporting: the triples are as C27 says when every walk is measured from 0
TriplesMeasuredFromZero == [][FirstOffsetsStep => TriplesFrom(StartsAtZero)]_vars
\* C27: a first sequence_offsets() records, for every path, one
\* (local-start, local-end, orientation) triple per waypoint, in walk order,
\* on the visited segment under the key of the path (one triple per visit);
\* the first triple starts at the start offset the path declares, each later
\* one where the previous one ended, and local-end minus local-start is the
\* length of the segment.
C27_TriplesFromDeclaredStart == [][FirstOffsetsStep => TriplesFrom(DeclaredStart)]_vars

\* The segments a first sequence_offsets() gives on the graph as it is, the
\* offsets it holds set aside
WithoutOffsets(segs) ==
    [n \in 1..Len(segs) |-> [segs[n] EXCEPT !.v.tags = Pop(@, POKey)]]
\* C28: sequence_offsets(recalculate=True) leaves on every segment the
\* per-path offset lists that a first sequence_offsets() on the same graph
\* gives, nothing of an earlier computation being left.
C28_RecalculateFromScratch ==
    [][(/\ last'.op = "sequence_offsets" /\ calls' = calls + 1 /\ last'.args[1]
        /\ last'.raised = NoError)
       => \A n \in 1..Len(segments) :
             OffsetsOf(segments'[n].v)
                = OffsetsOf(PathOffsets(WithoutOffsets(segments), paths, 1).segments[n].v)]_vars

\* add_dovetails has returned on a graph whose paths are all non-empty
Dovetailed ==
    /\ last.op = "add_dovetails" /\ last.raised = NoError
    /\ pre.paths # <<>> /\ Len(paths) = Len(pre.paths)
    /\ \A p \in 1..Len(pre.paths) : pre.paths[p].v.path # <<>>
\* The segments, the edges and the waypoints add_dovetails is to add
DovetailsWired ==
    /\ Has(segments, SourceName) /\ Get(segments, SourceName).length = 0
    /\ Has(segments, SinkName) /\ Get(segments, SinkName).length = 0
    /\ \A p \in 1..Len(pre.paths) :
          LET former == pre.paths[p].v.path
              walk == paths[p].v.path
          IN /\ Has(lines, <<SourceName, former[1][1]>>)
             /\ Has(lines, <<former[Len(former)][1], SinkName>>)
             /\ Len(walk) = Len(former) + 2
             /\ walk[1][1] = SourceName /\ walk[Len(walk)][1] = SinkName
             /\ SubSeq(walk, 2, Len(walk) - 1) = former
\* Supporting: the segments, edges and waypoints are added as C29 says
DovetailsAdded == Dovetailed => DovetailsWired
\* C29: after add_dovetails() on a graph whose paths are all non-empty,
\* segments 'source' and 'sink' exist with length 0, every path has an edge
\* from 'source' to the segment of its former first waypoint and one from the
\* segment of its former last waypoint to 'sink', and the walk of every path
\* is its former walk between a forward 'source' waypoint and a forward
\* 'sink' waypoint, which a P-line writes as source+ and sink+.
C29_DovetailsForward ==
    Dovetailed =>
       /\ DovetailsWired
       /\ \A p \in 1..Len(pre.paths) :
             PLine(paths[p].k, paths[p].v, TRUE)
                = PLine(paths[p].k,
                        [pre.paths[p].v EXCEPT !.path =
                            <<<<SourceName, FORWARD>>>> \o @ \o <<<<SinkName, FORWARD>>>>],
                        TRUE)

\* save_graph has returned, the dialect not forced, on a loaded graph whose
\* dialect is one of these
SavedAs(names) ==
    /\ alive /\ last.op = "save_graph" /\ last.args[2] = NotForced
    /\ last.raised = NoError
    /\ \E n \in names : metadata.version = FormatStr(n)
\* The file holds one line of these kinds per path and none of the others
PathsWrittenAs(kinds, others) ==
    /\ Len(LinesOfKind(disk, kinds)) = Len(paths)
    /\ LinesOfKind(disk, others) = <<>>
\* Supporting: a graph detected as rGFA is written without header and path lines
RGFAWithoutPaths == SavedAs({"rGFA"}) => LinesOfKind(disk, {"H", "P", "W"}) = <<>>
\* Supporting: no graph that is loaded has another dialect than rGFA or unknown
LoadedDialects == alive => metadata.version \in {FormatStr("rGFA"), FormatStr("unknown")}
\* C30: save_graph with no forced dialect writes the paths as the dialect of
\* the loaded graph has them: each path as a P-line for GFA1, each path as a
\* W-line for GFA1.1, GFA1.2 and GFA2, neither header nor path lines for
\* rGFA; every path of a graph that is not rGFA is in the file.
C30_PathsPerDetectedDialect ==
    /\ SavedAs({"GFA1"}) => PathsWrittenAs({"P"}, {"W"})
    /\ SavedAs({"GFA1.1", "GFA1.2", "GFA2"}) => PathsWrittenAs({"W"}, {"P"})
    /\ SavedAs({"rGFA"}) => LinesOfKind(disk, {"H", "P", "W"}) = <<>>
    /\ SavedAs({"GFA1", "GFA1.1", "GFA1.2", "GFA2", "unknown"})
          => Len(LinesOfKind(disk, {"P", "W"})) = Len(paths)
====
